---- MODULE Spec2Model ----
(***************************************************************************)
(* CDPConnection (src/src/CDPConnection/index.ts): one object that owns a  *)
(* WebSocket, allocates request ids, keeps the table of pending requests   *)
(* and dispatches id-less messages to the listeners of its EventEmitter.   *)
(*                                                                         *)
(* JavaScript runs every callback to completion, so the caller's API calls *)
(* and the transport's callbacks are atomic actions.  The one exception is *)
(* EventEmitter.emit, whose handlers may call back into the object: a      *)
(* dispatch is a frame on `stack`, and each handler invocation is a step.  *)
(* While a dispatch is running nothing else runs.                          *)
(*                                                                         *)
(* An optional JavaScript value (undefined or v) is the set {} or {v}.     *)
(***************************************************************************)
EXTENDS Integers, Sequences, FiniteSets, TLC

\* ---- bounds of the model ----
MaxWs    == 1   \* transports one Connection creates over its life (connect() calls)
MaxCalls == 2   \* send() calls
MaxRegs  == 2   \* on()/once() registrations
MaxDepth == 1   \* emit() calls nested inside a handler of a running dispatch
MaxEvents == 2  \* event messages whose order of arrival is recorded
MaxConns == 2   \* Connection instances created side by side
MaxOps == 2     \* calls of Browser, Page and Connection methods, launch()
                \* and newPage() apart
MaxPages == 2   \* newPage() calls
MaxTargets == 2 \* targets the process creates by itself
MaxLen == 2     \* characters of a text that type() is called with

\* ---- inputs ----
Methods   == {"Page.navigate", "Invalid.method"}
ErrorMsgs == {"Method not found"}
ErrorCodes == {{}, {-32601}}
CdpEvents == {"Page.loadEventFired"}
EventNames == CdpEvents \cup {"disconnected"}
EventParams == {"ts123456"}
TransportErrors == {"connect ECONNREFUSED"}
LifecycleEvents == {"Page.loadEventFired", "Page.domContentEventFired"}
WaitUntils == {"", "load", "domcontentloaded"}   \* "": no waitUntil given
Selectors == {".button"}
\* model.content of DOM.getBoxModel: x1, y1, x2, y2, x3, y3, x4, y4
Quads == {<<10, 20, 50, 20, 50, 60, 10, 60>>, <<0, 0, 3, 1, 4, 5, 1, 4>>}
WsUrl == "ws://localhost:9222/devtools/browser/b1"

\* ---- state ----
VARIABLES
  ws,              \* this.ws: 0 is null, else an index into sockets
  sockets,         \* the WebSockets created by connect(); sent is what the peer
                   \* of a live one has received
  messageId,       \* this.messageId
  pendingMessages, \* this.pendingMessages: set of [id, call], at most one per id
  calls,           \* the promises returned by send(), in call order
  listeners,       \* EventEmitter registry: event name -> sequence of entries
  fired,           \* rids of the once() wrappers whose `fired` flag is set
  regs,            \* history: every on()/once() registration, rid = index
  stack,           \* running emit() calls, innermost last
  emitNo,          \* emit() calls started since the stack was last empty
  atClose,         \* history: calls that were pending when close() was called
  lost,            \* history: calls in flight on a transport when it went down
  lastIn,          \* history: the event message handled by the last step, if
                   \* that step was the "message" handler on an event message
  heard,           \* history: the message that the "message" handler got in
                   \* the last step, where that is recorded
  order,           \* history: the event messages counted in order of arrival,
                   \* and the handler invocations in the order they happened
  life,            \* history: the operation of the last step, the close()
                   \* calls made in a row, the registrations made before the
                   \* last close()
  conns,           \* the Connection instances Browser and Page create
  ops,             \* the calls of Browser, Page and Connection methods
  chrome,          \* Browser.chrome: 0 is null, else an index into procs
  connection,      \* Browser.connection: 0 is null, else an index into conns
  procs            \* the Chrome processes that were spawned

vars == <<ws, sockets, messageId, pendingMessages, calls, listeners, fired,
          regs, stack, emitNo, atClose, lost, lastIn, heard, order, life,
          conns, ops, chrome, connection, procs>>

bvars == <<conns, ops, chrome, connection, procs>>

rpcVars == <<messageId, pendingMessages, calls>>
evVars  == <<listeners, fired, regs, stack, emitNo>>

\* ---- helpers ----
Range(s) == {s[i] : i \in 1..Len(s)}

Idle == stack = <<>>

NotConnected ==
  [name |-> "Error", method |-> "", errorMessage |-> "WebSocket is not connected",
   code |-> {}]

ProtocolError(method, errorMessage, code) ==
  [name |-> "ProtocolError", method |-> method, errorMessage |-> errorMessage,
   code |-> code]

\* super(wsUrl ? `${message} (${wsUrl})` : message)
ConnectionError(message, wsUrl) ==
  [name |-> "ConnectionError",
   message |-> IF wsUrl = "" THEN <<message>> ELSE <<message, " (", wsUrl, ")">>,
   wsUrl |-> wsUrl]

Init ==
  /\ ws = 0
  /\ sockets = <<>>
  /\ messageId = 0
  /\ pendingMessages = {}
  /\ calls = <<>>
  /\ listeners = [e \in EventNames |-> <<>>]
  /\ fired = {}
  /\ regs = <<>>
  /\ stack = <<>>
  /\ emitNo = 0
  /\ atClose = {}
  /\ lost = {}
  /\ lastIn = {}
  /\ heard = {}
  /\ order = [seq |-> 0, of |-> {}, trace |-> <<>>]
  /\ life = [op |-> "new", closes |-> 0, regsAtClose |-> 0]
  /\ conns = <<>>
  /\ ops = <<>>
  /\ chrome = 0
  /\ connection = 0
  /\ procs = <<>>

\* ---- EventEmitter.emit as used by the message and close handlers ----
\* emit(type, args): no listener -> nothing runs; else the handlers of a copy of
\* the list run in order.
Emit(st, ls, ev, params, n) ==
  IF ls[ev] = <<>> THEN st
  ELSE Append(st, [ev |-> ev, params |-> params, snap |-> ls[ev], i |-> 1,
                   no |-> n, log |-> <<>>])

\* ---- connect() ----
\* A closed WebSocket is inert (no event fires on it, close() and send() ignore
\* it), so the slot of a closed one is taken again by the next new WebSocket.
FreeSlots == {w \in 1..Len(sockets) : sockets[w].readyState = "CLOSED"}

NewSocket ==
  [readyState |-> "CONNECTING", connectP |-> "pending", sent |-> <<>>,
   notified |-> 0, failure |-> {}, connectErr |-> {}, closeCalls |-> 0]

SettleConnectAlways(p, outcome) == outcome

\* resolve() and reject() of the promise of connect(): the first call settles
\* it, a later one is ignored
SettleConnect(p, outcome) == IF p = "pending" THEN outcome ELSE p

\* this.ws = new WebSocket(this.wsUrl), whatever this.ws was
Connect ==
  /\ Idle
  /\ IF FreeSlots # {}
     THEN LET w == CHOOSE x \in FreeSlots : \A y \in FreeSlots : x <= y
          IN /\ sockets' = [sockets EXCEPT ![w] = NewSocket]
             /\ ws' = w
     ELSE /\ Len(sockets) < MaxWs
          /\ sockets' = Append(sockets, NewSocket)
          /\ ws' = Len(sockets) + 1
  /\ UNCHANGED <<rpcVars, evVars, atClose, lost>>

\* connect() called a second time while the WebSocket of the first call is
\* not closed: this.ws = new WebSocket(this.wsUrl); nothing is done with the
\* WebSocket that this.ws held
ConnectAgain ==
  /\ Idle
  /\ Len(sockets) = 1
  /\ sockets[1].readyState # "CLOSED"
  /\ sockets' = Append(sockets, NewSocket)
  /\ ws' = Len(sockets) + 1
  /\ UNCHANGED <<rpcVars, evVars, atClose, lost>>

\* ws "open": resolve()
WsOpen(w) ==
  /\ Idle
  /\ sockets[w].readyState = "CONNECTING"
  /\ sockets' = [sockets EXCEPT ![w].readyState = "OPEN",
                   ![w].connectP = SettleConnect(@, "resolved")]
  /\ UNCHANGED <<ws, rpcVars, evVars, atClose, lost>>

\* ---- send() ----
CanSendWsOnly == ws # 0

\* the guard of send(): this.ws is set and its readyState is OPEN
CanSend == ws # 0 /\ sockets[ws].readyState = "OPEN"

AllocIdStale(mid) == mid

\* const id = ++this.messageId
AllocId(mid) == mid + 1

\* Map.set(id, ...): replaces the entry of that key
MapSet(pm, id, k) == {e \in pm : e.id # id} \cup {[id |-> id, call |-> k]}

EnvelopeResent(id, method) ==
  <<[id |-> id, method |-> method], [id |-> id, method |-> method]>>

\* this.ws!.send(JSON.stringify(message)): what one send() writes
Envelope(id, method) == <<[id |-> id, method |-> method]>>

Send(method) ==
  /\ Idle
  /\ Len(calls) < MaxCalls
  /\ CanSend
  /\ LET id == AllocId(messageId)
         k  == Len(calls) + 1
     IN /\ messageId' = id
        /\ pendingMessages' = MapSet(pendingMessages, id, k)
        /\ sockets' = [sockets EXCEPT ![ws].sent = @ \o Envelope(id, method)]
        /\ calls' = Append(calls, [id |-> {id}, method |-> method, state |-> "pending",
                                   result |-> {}, error |-> {}, settledBy |-> {}])
  /\ UNCHANGED <<ws, evVars, atClose, lost>>

\* send() outside OPEN: throws before anything is allocated
SendNotConnected(method) ==
  /\ Idle
  /\ Len(calls) < MaxCalls
  /\ ~CanSend
  /\ calls' = Append(calls, [id |-> {}, method |-> method, state |-> "rejected",
                             result |-> {}, error |-> {NotConnected},
                             settledBy |-> {}])
  /\ UNCHANGED <<ws, sockets, messageId, pendingMessages, evVars, atClose, lost>>

\* ---- the "message" handler ----
SentIds(w) == {e.id : e \in Range(sockets[w].sent)}

\* calls whose request was written to transport w and that are still pending
InFlight(w) == {e.call : e \in {x \in pendingMessages : x.id \in SentIds(w)}}

Response(id, result) ==
  [id |-> {id}, method |-> {}, params |-> {}, result |-> result, error |-> {}]

ErrorResponse(id, message, code) ==
  [id |-> {id}, method |-> {}, params |-> {}, result |-> {},
   error |-> {[message |-> message, code |-> code]}]

EventMessage(method, params) ==
  [id |-> {}, method |-> {method}, params |-> {params}, result |-> {}, error |-> {}]

EmptyMessage ==
  [id |-> {}, method |-> {}, params |-> {}, result |-> {}, error |-> {}]

\* the result the peer computes for request id
ResultOf(id) == [frameId |-> id]

\* What the peer can put on transport w: an answer (once or again) to a request
\* written to w, an answer carrying an id no request carries yet, a message
\* with neither id nor method, or an event.  A response carries no method.
InboundResponses(w) ==
  LET ids == SentIds(w) \cup {messageId + 1}
  IN {Response(id, {ResultOf(id)}) : id \in ids}
     \cup {ErrorResponse(id, e, c) : id \in ids, e \in ErrorMsgs, c \in ErrorCodes}
     \cup {EmptyMessage}

InboundEvents == {EventMessage(ev, p) : ev \in CdpEvents, p \in EventParams}

\* a message that carries an id and a method: an answer, to a request written
\* to w or to none, with the method and params of an event
InboundMixed(w) ==
  {[r EXCEPT !.method = e.method, !.params = e.params] :
     r \in InboundResponses(w) \ {EmptyMessage}, e \in InboundEvents}

IsEvent(msg) == msg.id = {} /\ msg.method # {}

The(S) == CHOOSE x \in S : TRUE

LookupOldest(pm, id) ==
  {e \in pm : \A o \in pm : e.call <= o.call}

\* this.pendingMessages.get(message.id)
Lookup(pm, id) == {e \in pm : e.id = id}

\* new ProtocolError(message.method || "unknown", message.error.message,
\*                   message.error.code)
ErrorOf(msg) ==
  ProtocolError(IF msg.method = {} THEN "unknown" ELSE The(msg.method),
                The(msg.error).message, The(msg.error).code)

Settle(call, msg) ==
  IF msg.error # {}
  THEN [call EXCEPT !.state = "rejected", !.error = {ErrorOf(msg)},
                    !.settledBy = {msg}]
  ELSE [call EXCEPT !.state = "resolved", !.result = msg.result,
                    !.settledBy = {msg}]

HasIdAndNoMethod(msg) == msg.id # {} /\ msg.method = {}

\* if (message.id !== undefined)
HasId(msg) == msg.id # {}

MessageAnytime == TRUE

\* ws "message": a callback of the event loop, which starts one only when no
\* other code is running
MessageReady == Idle

WsMessage(w, msg) ==
  /\ MessageReady
  /\ sockets[w].readyState \in {"OPEN", "CLOSING"}
  /\ sockets[w].connectP = "resolved"
  /\ IF HasId(msg)
     THEN LET pending == Lookup(pendingMessages, The(msg.id))
          IN /\ IF pending # {}
                THEN /\ pendingMessages' =
                          {e \in pendingMessages : e.id # The(msg.id)}
                     /\ calls' = [calls EXCEPT ![The(pending).call] = Settle(@, msg)]
                ELSE UNCHANGED <<pendingMessages, calls>>
             /\ UNCHANGED <<stack, emitNo>>
     ELSE /\ IF msg.method # {}
             THEN /\ stack' = Emit(stack, listeners, The(msg.method), msg.params, emitNo + 1)
                  /\ emitNo' = IF stack' = stack THEN emitNo ELSE emitNo + 1
             ELSE UNCHANGED <<stack, emitNo>>
          /\ UNCHANGED <<pendingMessages, calls>>
  /\ lastIn' = IF IsEvent(msg) THEN {msg} ELSE {}
  /\ UNCHANGED <<ws, sockets, messageId, listeners, fired, regs, atClose, lost>>

\* ---- the "error" and "close" handlers ----
PendingDropped(pm) == {}

\* the "close" handler only emits: the pending table stays as it is
PendingAfterDisconnect(pm) == pm

\* ws "close": this.emit("disconnected")
OnWsClose(w) ==
  /\ pendingMessages' = PendingAfterDisconnect(pendingMessages)
  /\ stack' = Emit(stack, listeners, "disconnected", {}, emitNo + 1)
  /\ emitNo' = IF stack' = stack THEN emitNo ELSE emitNo + 1
  /\ lost' = lost \cup InFlight(w)
  /\ UNCHANGED <<ws, messageId, calls, listeners, fired, regs, atClose>>

\* The transport fails (refused or aborted handshake, broken socket): the
\* WebSocket emits "error" and then "close".  The "error" handler calls
\* reject(new ConnectionError(...)), which a settled promise ignores.
\* failure is the message of the error that ended the handshake.
WsError(w) ==
  /\ Idle
  /\ sockets[w].readyState # "CLOSED"
  /\ \E m \in TransportErrors :
       LET p1 == SettleConnect(sockets[w].connectP, "rejected")
       IN sockets' = [sockets EXCEPT ![w].readyState = "CLOSED",
                        ![w].connectP = p1,
                        ![w].failure = IF sockets[w].connectP = "pending" THEN {m} ELSE @,
                        ![w].connectErr = IF p1 # sockets[w].connectP
                                          THEN {ConnectionError(m, WsUrl)} ELSE @,
                        ![w].sent = <<>>, ![w].notified = @ + 1,
                        ![w].closeCalls = 0]
  /\ OnWsClose(w)

\* The transport ends after it was open (the peer closed it, or the closing
\* handshake started by close() completed): the WebSocket emits "close".
WsClose(w) ==
  /\ Idle
  /\ sockets[w].readyState \in {"OPEN", "CLOSING"}
  /\ sockets[w].connectP = "resolved"
  /\ sockets' = [sockets EXCEPT ![w].readyState = "CLOSED", ![w].sent = <<>>,
                   ![w].notified = @ + 1, ![w].closeCalls = 0]
  /\ OnWsClose(w)

\* ---- close() ----
\* WebSocket.close(): CONNECTING and OPEN become CLOSING, else nothing
WsCloseCall(state) == IF state \in {"CONNECTING", "OPEN"} THEN "CLOSING" ELSE state

KeepWs(w) == w

\* this.ws = null
NullWs(w) == 0

RemoveNoListeners(ls) == ls

\* this.removeAllListeners()
RemoveAllListeners(ls) == [e \in DOMAIN ls |-> <<>>]

\* closeCalls counts the close() calls made on a transport that is not closed
\* yet (2 stands for more than one).
Close ==
  /\ Idle
  /\ IF ws # 0
     THEN /\ sockets' = [sockets EXCEPT ![ws].readyState = WsCloseCall(@),
                           ![ws].closeCalls =
                             IF sockets[ws].readyState = "CLOSED" \/ @ = 2
                             THEN @ ELSE @ + 1]
          /\ ws' = NullWs(ws)
     ELSE UNCHANGED <<ws, sockets>>
  /\ listeners' = RemoveAllListeners(listeners)
  /\ atClose' = atClose \cup {e.call : e \in pendingMessages}
  /\ UNCHANGED <<rpcVars, fired, regs, stack, emitNo, lost>>

\* ---- on() / once() / off() ----
\* Every registration passes a function of its own: the function is named by
\* the number of its registration (rid).
Entry(fn, once, rid) ==
  [fn |-> fn, once |-> once, rid |-> rid, born |-> {f.no : f \in Range(stack)}]

Prepend(list, e) == <<e>> \o list

\* EventEmitter.on: the listener goes to the end of the event's list
AddListener(list, e) == Append(list, e)

OnceAsOn(fn, rid) == Entry(fn, FALSE, rid)

\* EventEmitter.once: the entry is a wrapper that removes itself, then calls fn
OnceEntry(fn, rid) == Entry(fn, TRUE, rid)

Register(ls, api, ev) ==
  LET rid == Len(regs) + 1
      e   == IF api = "once" THEN OnceEntry(rid, rid) ELSE Entry(rid, FALSE, rid)
  IN [ls EXCEPT ![ev] = AddListener(@, e)]

Registered(api, ev) ==
  Append(regs, [api |-> api, ev |-> ev, calls |-> 0])

\* EventEmitter.removeListener: the most recently added entry of that function
RemoveListener(list, fn) ==
  LET hits == {i \in 1..Len(list) : list[i].fn = fn}
  IN IF hits = {} THEN list
     ELSE LET p == CHOOSE i \in hits : \A j \in hits : j <= i
          IN SubSeq(list, 1, p - 1) \o SubSeq(list, p + 1, Len(list))

\* the once() wrapper removes itself
RemoveEntry(list, rid) == SelectSeq(list, LAMBDA e : e.rid # rid)

On(ev) ==
  /\ Idle
  /\ Len(regs) < MaxRegs
  /\ listeners' = Register(listeners, "on", ev)
  /\ regs' = Registered("on", ev)
  /\ UNCHANGED <<ws, sockets, rpcVars, fired, stack, emitNo, atClose, lost>>

Once(ev) ==
  /\ Idle
  /\ Len(regs) < MaxRegs
  /\ listeners' = Register(listeners, "once", ev)
  /\ regs' = Registered("once", ev)
  /\ UNCHANGED <<ws, sockets, rpcVars, fired, stack, emitNo, atClose, lost>>

Off(ev, fn) ==
  /\ Idle
  /\ listeners' = [listeners EXCEPT ![ev] = RemoveListener(@, fn)]
  /\ UNCHANGED <<ws, sockets, rpcVars, fired, regs, stack, emitNo, atClose, lost>>

\* ---- a running dispatch ----
Top == stack[Len(stack)]

LiveList(frame) == listeners[frame.ev]

\* emit() iterates over the copy of the list it took when it started
Snap(frame) == frame.snap

\* What a handler may do while it runs: nothing, register a handler, remove
\* one, or raise its own event again.
HandlerActs ==
  {[op |-> "none", ev |-> "", fn |-> 0]}
  \cup {[op |-> o, ev |-> e, fn |-> 0] : o \in {"on", "once"}, e \in EventNames}
  \cup {[op |-> "off", ev |-> e, fn |-> f] : e \in EventNames, f \in 1..Len(regs)}
  \cup {[op |-> "emit", ev |-> "", fn |-> 0]}

Count(regsNow, l) ==
  IF regsNow[l.rid].api = "once"
  THEN [regsNow EXCEPT ![l.rid].calls = IF @ < 2 THEN @ + 1 ELSE @]
  ELSE regsNow

\* The next entry of the running emit() is called.  A once() wrapper that has
\* fired does nothing; one that has not removes itself, sets fired, calls fn.
Invoke(act) ==
  /\ ~Idle
  /\ Top.i <= Len(Snap(Top))
  /\ LET d   == Len(stack)
         l   == Snap(Top)[Top.i]
         ls1 == IF l.once THEN [listeners EXCEPT ![Top.ev] = RemoveEntry(@, l.rid)]
                ELSE listeners
         st1 == [stack EXCEPT ![d].i = @ + 1,
                   ![d].log = Append(@, [rid |-> l.rid, fn |-> l.fn,
                                         params |-> Top.params, born |-> l.born])]
     IN IF l.once /\ l.rid \in fired
        THEN /\ act.op = "none"
             /\ stack' = [stack EXCEPT ![d].i = @ + 1]
             /\ UNCHANGED <<listeners, fired, regs, emitNo>>
        ELSE /\ fired' = IF l.once THEN fired \cup {l.rid} ELSE fired
             /\ CASE act.op = "none" ->
                       /\ listeners' = ls1
                       /\ stack' = st1
                       /\ regs' = Count(regs, l)
                       /\ UNCHANGED emitNo
                  [] act.op \in {"on", "once"} ->
                       /\ Len(regs) < MaxRegs
                       /\ listeners' = Register(ls1, act.op, act.ev)
                       /\ stack' = st1
                       /\ regs' = Count(Registered(act.op, act.ev), l)
                       /\ UNCHANGED emitNo
                  [] act.op = "off" ->
                       /\ listeners' = [ls1 EXCEPT ![act.ev] = RemoveListener(@, act.fn)]
                       /\ stack' = st1
                       /\ regs' = Count(regs, l)
                       /\ UNCHANGED emitNo
                  [] act.op = "emit" ->
                       /\ Len(stack) <= MaxDepth
                       /\ listeners' = ls1
                       /\ stack' = Emit(st1, ls1, Top.ev, Top.params, emitNo + 1)
                       /\ emitNo' = IF stack' = st1 THEN emitNo ELSE emitNo + 1
                       /\ regs' = Count(regs, l)
  /\ UNCHANGED <<ws, sockets, rpcVars, atClose, lost>>

\* emit() returns when its copy of the list is exhausted
Return ==
  /\ ~Idle
  /\ Top.i > Len(Snap(Top))
  /\ stack' = SubSeq(stack, 1, Len(stack) - 1)
  /\ IF Len(stack) = 1
     THEN /\ emitNo' = 0
          /\ listeners' = [e \in EventNames |->
                             [i \in 1..Len(listeners[e]) |->
                                [listeners[e][i] EXCEPT !.born = {}]]]
     ELSE UNCHANGED <<emitNo, listeners>>
  /\ UNCHANGED <<ws, sockets, rpcVars, fired, regs, atClose, lost>>

\* a step whose place in the order of arrival is not recorded
Blind == UNCHANGED <<order, life, bvars, heard>>

\* every step but the "message" handler
Quiet == lastIn' = {} /\ Blind

ConnActs ==
  \/ Connect /\ Quiet
  \/ \E w \in 1..Len(sockets) : WsOpen(w) /\ Quiet
  \/ \E w \in 1..Len(sockets) : WsError(w) /\ Quiet
  \/ \E w \in 1..Len(sockets) : WsClose(w) /\ Quiet
  \/ Close /\ Quiet

RpcActs ==
  \/ \E w \in 1..Len(sockets) : \E msg \in InboundResponses(w) :
       WsMessage(w, msg) /\ Blind
  \/ \E m \in Methods : Send(m) /\ Quiet
  \/ \E m \in Methods : SendNotConnected(m) /\ Quiet

EvActs ==
  \/ \E w \in 1..Len(sockets) : \E msg \in InboundEvents :
       WsMessage(w, msg) /\ Blind
  \/ \E e \in EventNames : On(e) /\ Quiet
  \/ \E e \in EventNames : Once(e) /\ Quiet
  \/ \E e \in EventNames, f \in 1..Len(regs) : Off(e, f) /\ Quiet
  \/ \E act \in HandlerActs : Invoke(act) /\ Quiet
  \/ Return /\ Quiet

\* the whole Connection
Next == ConnActs \/ RpcActs \/ EvActs

Spec == Init /\ [][Next]_vars

\* request/response traffic of a Connection nobody listens to
RpcNext == ConnActs \/ RpcActs

SpecRpc == Init /\ [][RpcNext]_vars

\* event traffic of a Connection nobody sends on
EvNext == ConnActs \/ EvActs

SpecEv == Init /\ [][EvNext]_vars

\* connect() called once or twice on one Connection, then requests, answers
\* and close()
AgainNext ==
  \/ sockets = <<>> /\ Connect /\ Quiet
  \/ ConnectAgain /\ Quiet
  \/ \E w \in 1..Len(sockets) : WsOpen(w) /\ Quiet
  \/ \E w \in 1..Len(sockets) : WsClose(w) /\ Quiet
  \/ Close /\ Quiet
  \/ \E m \in Methods : Send(m) /\ Quiet
  \/ \E w \in 1..Len(sockets) : \E id \in SentIds(w) :
       WsMessage(w, Response(id, {ResultOf(id)})) /\ Blind

SpecAgain == Init /\ [][AgainNext]_vars

\* ---- every message, recorded ----
Hear(msg) == heard' = {msg} /\ UNCHANGED <<order, life, bvars>>

Unheard == lastIn' = {} /\ heard' = {} /\ UNCHANGED <<order, life, bvars>>

\* one transport, requests on it, one listener, and any message
MsgNext ==
  \/ sockets = <<>> /\ Connect /\ Unheard
  \/ \E w \in 1..Len(sockets) : WsOpen(w) /\ Unheard
  \/ Send("Page.navigate") /\ Unheard
  \/ \E w \in 1..Len(sockets) :
       \E msg \in InboundResponses(w) \cup InboundMixed(w) \cup InboundEvents :
         WsMessage(w, msg) /\ Hear(msg)
  \/ regs = <<>> /\ \E e \in CdpEvents : On(e) /\ Unheard
  \/ regs = <<>> /\ \E e \in CdpEvents : Once(e) /\ Unheard
  \/ Invoke([op |-> "none", ev |-> "", fn |-> 0]) /\ Unheard
  \/ Return /\ Unheard

SpecMsg == Init /\ [][MsgNext]_vars

\* ---- the order of arrival, recorded ----
\* the event message whose dispatch the frame numbered n belongs to (0: none)
MsgOf(n) == IF \E p \in order.of : p.no = n
            THEN (CHOOSE p \in order.of : p.no = n).msg ELSE 0

Mark(tr, x) == IF tr # <<>> /\ tr[Len(tr)] = x THEN tr ELSE Append(tr, x)

\* the step has called a handler of the frame that was on top
Invoked ==
  /\ stack # <<>>
  /\ Len(stack') >= Len(stack)
  /\ stack'[Len(stack)].log # Top.log

\* the step has settled a send() with a response
Responded == Len(calls') = Len(calls) /\ calls' # calls

\* order.seq counts the event messages; order.of ties every running emit() to
\* the event message it was raised for; order.trace lists, without immediate
\* repetitions, the message of each handler invocation and a 0 for a response.
Arrival ==
  LET seq1 == IF lastIn' # {} THEN order.seq + 1 ELSE order.seq
      msg  == IF lastIn' # {} THEN seq1
              ELSE IF stack # <<>> THEN MsgOf(Top.no) ELSE 0
      of1  == IF stack' = <<>> THEN {}
              ELSE IF Len(stack') > Len(stack)
                   THEN order.of \cup {[no |-> stack'[Len(stack')].no, msg |-> msg]}
                   ELSE order.of
      tr1  == IF Invoked /\ MsgOf(Top.no) > 0
              THEN Mark(order.trace, MsgOf(Top.no)) ELSE order.trace
      tr2  == IF Responded THEN Mark(tr1, 0) ELSE tr1
  IN /\ order' = [seq |-> seq1, of |-> of1, trace |-> tr2]
     /\ UNCHANGED <<life, bvars, heard>>

Seen == lastIn' = {} /\ Arrival

\* what a handler does in the recorded runs: nothing, or raise its event again
OrdHandlerActs == {a \in HandlerActs : a.op \in {"none", "emit"}}

\* responses and events on one Connection, the order of arrival recorded
OrdNext ==
  \/ Connect /\ Seen
  \/ \E w \in 1..Len(sockets) : WsOpen(w) /\ Seen
  \/ Send("Page.navigate") /\ Seen
  \/ \E w \in 1..Len(sockets) : \E id \in SentIds(w) :
       WsMessage(w, Response(id, {ResultOf(id)})) /\ Arrival
  \/ \E w \in 1..Len(sockets) : \E msg \in InboundEvents :
       order.seq < MaxEvents /\ WsMessage(w, msg) /\ Arrival
  \/ \E e \in CdpEvents : On(e) /\ Seen
  \/ \E e \in CdpEvents : Once(e) /\ Seen
  \/ \E act \in OrdHandlerActs : Invoke(act) /\ Seen
  \/ Return /\ Seen

SpecOrd == Init /\ [][OrdNext]_vars

\* ---- the life of one Connection, the operation of each step recorded ----
Did(op) ==
  /\ life' = [op |-> op,
              closes |-> IF op # "close" THEN 0
                         ELSE IF life.closes < 2 THEN life.closes + 1 ELSE 2,
              regsAtClose |-> IF op = "close" THEN Len(regs) ELSE life.regsAtClose]
  /\ UNCHANGED <<order, bvars, heard>>

Op(op) == lastIn' = {} /\ Did(op)

\* connect, send and close with the transport's callbacks and the responses
LifeRpcNext ==
  \/ Connect /\ Op("connect")
  \/ \E w \in 1..Len(sockets) : WsOpen(w) /\ Op("other")
  \/ \E w \in 1..Len(sockets) : WsError(w) /\ Op("other")
  \/ \E w \in 1..Len(sockets) : WsClose(w) /\ Op("other")
  \/ Close /\ Op("close")
  \/ Send("Page.navigate") /\ Op("send")
  \/ SendNotConnected("Page.navigate") /\ Op("send")
  \/ \E w \in 1..Len(sockets) : \E id \in SentIds(w) :
       WsMessage(w, Response(id, {ResultOf(id)})) /\ Did("other")

SpecLifeRpc == Init /\ [][LifeRpcNext]_vars

\* connect, send and close with the listeners and the events
LifeEvNext ==
  \/ Connect /\ Op("connect")
  \/ \E w \in 1..Len(sockets) : WsOpen(w) /\ Op("other")
  \/ \E w \in 1..Len(sockets) : WsError(w) /\ Op("other")
  \/ \E w \in 1..Len(sockets) : WsClose(w) /\ Op("other")
  \/ Close /\ Op("close")
  \/ Send("Page.navigate") /\ Op("send")
  \/ \E w \in 1..Len(sockets) : \E msg \in InboundEvents :
       WsMessage(w, msg) /\ Did("other")
  \/ \E e \in CdpEvents : On(e) /\ Op("other")
  \/ \E e \in CdpEvents : Once(e) /\ Op("other")
  \/ Invoke([op |-> "none", ev |-> "", fn |-> 0]) /\ Op("other")
  \/ Return /\ Op("other")

SpecLifeEv == Init /\ [][LifeEvNext]_vars

\* ================= Browser, Page and their Connections =================
\* Browser (src/src/browser/index.ts) and Page (src/src/page/index.ts) use
\* CDPConnection instances only through connect(), send(), on() and close().
\* Here a Connection instance is a record with the fields of the class, and
\* the handlers the library registers are opaque, so a dispatch is one step.
\* An async method runs from one `await` to the next in one step; ops holds
\* the calls that were made, each with the place where it is suspended.
Err(name, detail) == [name |-> name, detail |-> detail, targetId |-> 0]

\* new TargetClosedError(targetId)
TargetClosedError(targetId) ==
  [name |-> "TargetClosedError", detail |-> "Target has been closed",
   targetId |-> targetId]

\* launch() called without options, or with {}
NoOptions == [headless |-> FALSE, windowSize |-> {}, chromeFlags |-> {}]

NewOp(kind, pc) ==
  [kind |-> kind, pc |-> pc, conn |-> 0, proc |-> 0, tid |-> 0, wait |-> {},
   listed |-> {}, steps |-> <<>>, errors |-> 0, err |-> {}, result |-> {},
   fresh |-> FALSE, waitUntil |-> "", seen |-> {}, input |-> <<>>, cmds |-> <<>>,
   model |-> <<>>, delay |-> 0, options |-> NoOptions]

\* the variables of this part as one value, and back
Cur ==
  [conns |-> conns, ops |-> ops, chrome |-> chrome, connection |-> connection,
   procs |-> procs]

Becomes(b) ==
  /\ conns' = b.conns
  /\ ops' = b.ops
  /\ chrome' = b.chrome
  /\ connection' = b.connection
  /\ procs' = b.procs

\* ---- the Chrome process ----
\* A target is listed from its creation until some time after its close was
\* acknowledged (browser/index.ts, note on targets()).
Target(id, type) == [id |-> id, type |-> type, state |-> "open"]

InitialTargets ==
  {{}, {Target(1, "page")}, {Target(1, "page"), Target(2, "service_worker")}}

NewProc(init) == [alive |-> TRUE, targets |-> init, nextTid |-> Cardinality(init) + 1]

Listing(p) == {[targetId |-> t.id, type |-> t.type] : t \in p.targets}

\* webSocketDebuggerUrl of a target of process p (target 0: the browser endpoint)
UrlOf(p, t) == [proc |-> p, target |-> t]

ResultMsg(id, result) == [id |-> id, error |-> {}, result |-> {result}]

ErrorMsg(id, message) ==
  [id |-> id, error |-> {[message |-> message, code |-> {-32602}]}, result |-> {}]

OpenTarget(p, t) == \E x \in p.targets : x.id = t /\ x.state = "open"

\* closed on request, and for a short while still in the listing
ClosingTarget(p, t) == \E x \in p.targets : x.id = t /\ x.state = "closing"

\* What the process answers to request r of process p: the messages it can
\* send, each with the process as it is afterwards.
ChromeAnswers(p, r) ==
  CASE r.method = "Target.getTargets" ->
         {[msg |-> ResultMsg(r.id, [targetInfos |-> Listing(p)]), proc |-> p]}
    [] r.method = "Target.closeTarget" ->
         IF OpenTarget(p, r.arg)
         THEN {[msg |-> ResultMsg(r.id, [success |-> TRUE]),
                proc |-> [p EXCEPT !.targets =
                            {IF x.id = r.arg THEN [x EXCEPT !.state = "closing"] ELSE x
                               : x \in @}]]}
         ELSE {[msg |-> ErrorMsg(r.id, "No target with given id found"), proc |-> p],
               [msg |-> ResultMsg(r.id, [success |-> FALSE]), proc |-> p]}
              \cup (IF ClosingTarget(p, r.arg)
                    THEN {[msg |-> ResultMsg(r.id, [success |-> TRUE]), proc |-> p]}
                    ELSE {})
    [] r.method = "Target.createTarget" ->
         {[msg |-> ResultMsg(r.id, [targetId |-> p.nextTid]),
           proc |-> [p EXCEPT !.targets = @ \cup {Target(p.nextTid, "page")},
                              !.nextTid = @ + 1]]}
    [] r.method = "Target.attachToTarget" ->
         IF OpenTarget(p, r.arg)
         THEN {[msg |-> ResultMsg(r.id, [sessionId |-> r.arg]), proc |-> p]}
         ELSE {[msg |-> ErrorMsg(r.id, "No target with given id found"), proc |-> p]}
    [] r.method = "DOM.getDocument" ->
         {[msg |-> ResultMsg(r.id, [root |-> {[nodeId |-> 1]}]), proc |-> p],
          [msg |-> ResultMsg(r.id, [root |-> {}]), proc |-> p]}
    [] r.method = "DOM.querySelector" ->
         {[msg |-> ResultMsg(r.id, [nodeId |-> n]), proc |-> p] : n \in {0, 2}}
    [] r.method = "DOM.getBoxModel" ->
         {[msg |-> ResultMsg(r.id, [model |-> [content |-> q]]), proc |-> p] : q \in Quads}
         \cup {[msg |-> ErrorMsg(r.id, "Could not compute box model."), proc |-> p]}
    [] OTHER ->
         {[msg |-> ResultMsg(r.id, [frameId |-> r.id]), proc |-> p],
          [msg |-> ErrorMsg(r.id, "Method not found"), proc |-> p]}

\* ---- a Connection instance ----
\* new CDPConnection(url)
NewConnection(url) ==
  [url |-> url, ws |-> 0, readyState |-> "NONE", connectP |-> "none",
   messageId |-> 0, pendingMessages |-> {},
   listeners |-> [e \in EventNames \cup LifecycleEvents |-> <<>>], out |-> {}]

\* connect(): this.ws = new WebSocket(this.wsUrl)
Connecting(cn) ==
  [cn EXCEPT !.ws = 1, !.readyState = "CONNECTING", !.connectP = "pending"]

\* the guard of send() on an instance
CanSendOn(cn) == cn.ws # 0 /\ cn.readyState = "OPEN"

IdCounterStatic(cs, c, id) == [x \in DOMAIN cs |-> [cs[x] EXCEPT !.messageId = id]]

\* ++this.messageId on instance c: messageId is a field of the instance
IdCounterAfter(cs, c, id) == [cs EXCEPT ![c].messageId = id]

\* send(method, params) on instance c by call o, the guard of send() passed:
\* id allocated, pending entry set, envelope written (out: the envelopes the
\* peer has not answered)
Sent(b, c, o, method, arg) ==
  LET id == AllocId(b.conns[c].messageId)
      cs == IdCounterAfter(b.conns, c, id)
  IN [b EXCEPT !.conns = [cs EXCEPT ![c].pendingMessages = MapSet(@, id, o),
                                    ![c].out = @ \cup {[id |-> id, method |-> method,
                                                        arg |-> arg]}],
               !.ops[o].wait = @ \cup {id},
               !.ops[o].conn = c]

\* close() on instance c
Closed(cn) ==
  [cn EXCEPT !.readyState = IF cn.ws # 0 THEN WsCloseCall(@) ELSE @,
             !.ws = IF cn.ws # 0 THEN NullWs(@) ELSE @,
             !.listeners = RemoveAllListeners(@)]

\* the call o ends with an exception
Fail(b, o, err) ==
  [b EXCEPT !.ops[o].pc = "failed", !.ops[o].err = {err}, !.ops[o].wait = {}]

Done(b, o, result) ==
  [b EXCEPT !.ops[o].pc = "done", !.ops[o].result = result, !.ops[o].wait = {}]

Step(b, o, what) == [b EXCEPT !.ops[o].steps = Append(@, what)]

NotConnectedError == Err("Error", "WebSocket is not connected")

\* connection.send() as the async methods call it: throws unless OPEN
SendOr(b, c, o, method, arg, pc) ==
  IF CanSendOn(b.conns[c])
  THEN [Sent(b, c, o, method, arg) EXCEPT !.ops[o].pc = pc]
  ELSE Fail(b, o, NotConnectedError)

\* ---- Browser.targets() ----
\* if (!this.connection) throw ...; await this.connection.send("Target.getTargets")
Targets(b, o) ==
  IF b.connection = 0
  THEN Fail(b, o, Err("BrowserNotConnectedError", "get targets"))
  ELSE SendOr(Step(b, o, "targets"), b.connection, o, "Target.getTargets", 0, "list")

\* ---- Browser.closeTargetById() for each page target of a listing ----
RECURSIVE CloseEach(_, _, _)
CloseEach(b, o, tids) ==
  IF tids = {} THEN b
  ELSE LET t == CHOOSE x \in tids : \A y \in tids : x <= y
       IN CloseEach(Step(Sent(b, b.connection, o, "Target.closeTarget", t), o,
                         "closeTarget"),
                    o, tids \ {t})

PageTargets(infos) == {t.targetId : t \in {x \in infos : x.type = "page"}}

\* pageTargets.map((target) => this.closeTargetById(target.targetId)): every
\* call runs to its send() before the first one is awaited
CloseTargets(b, o, tids) ==
  IF b.connection = 0
  THEN Fail(b, o, Err("BrowserNotConnectedError", "close page"))
  ELSE IF ~CanSendOn(b.conns[b.connection])
       THEN Fail(b, o, NotConnectedError)
       ELSE [CloseEach(b, o, tids) EXCEPT !.ops[o].pc = "closing",
                                          !.ops[o].listed = tids]

\* ---- Browser.close() ----
KillUncaught(b, o, killOk) ==
  IF b.chrome = 0 THEN Done(b, o, {})
  ELSE IF killOk
       THEN Done(Step([b EXCEPT !.procs[b.chrome].alive = FALSE, !.chrome = 0],
                      o, "kill"), o, {})
       ELSE Fail(Step(b, o, "kill"), o, Err("Error", "kill"))

\* this.chrome.kill() in try/catch, this.chrome = null
Kill(b, o, killOk) ==
  IF b.chrome = 0 THEN Done(b, o, {})
  ELSE LET b1 == IF killOk
                 THEN [b EXCEPT !.procs[b.chrome].alive = FALSE]
                 ELSE [b EXCEPT !.ops[o].errors = @ + 1]
       IN Done(Step([b1 EXCEPT !.chrome = 0], o, "kill"), o, {})

\* this.connection.close(); this.connection = null; then the process
Teardown(b, o, killOk) ==
  IF b.connection = 0
  THEN Fail(b, o, Err("TypeError", "this.connection is null"))
  ELSE Kill(Step([b EXCEPT !.conns[b.connection] = Closed(@), !.connection = 0],
                 o, "connection.close"),
            o, killOk)

AnyAcked(wait) == TRUE

\* await Promise.all(...): resumes when every close was acknowledged
AllAcked(wait) == wait = {}

\* ---- a response that is an error ----
Failed(msg) == msg.error # {}

ProtocolErr(msg) == Err("ProtocolError", The(msg.error).message)

\* ---- commands of Page methods ----
\* the params of the commands below; a field a command does not have is 0 or ""
Params(type, x, y, key, code, text) ==
  [type |-> type, x |-> x, y |-> y, key |-> key, code |-> code, text |-> text]

\* await this.connection.send(method, params) in call o, which goes on at pc
\* (cmds: the commands the call has written, with their params)
Command(b, o, method, params, pc) ==
  LET b1 == SendOr(b, b.ops[o].conn, o, method, 0, pc)
  IN IF b1.ops[o].pc = "failed" THEN b1
     ELSE [b1 EXCEPT !.ops[o].cmds = Append(@, [method |-> method, params |-> params])]

\* ---- Page.click() ----
ElementNotFoundError(selector) ==
  [name |-> "ElementNotFoundError", detail |-> selector, targetId |-> 0]

MissingNever(nodeId) == FALSE

\* if (!nodeId)
Missing(nodeId) == nodeId = 0

TopLeft(content) == <<4 * content[1], 4 * content[2]>>

\* x = (x1 + x2 + x3 + x4) / 4, y = (y1 + y2 + y3 + y4) / 4, in quarters of
\* a unit, so that the division is exact
Center(content) ==
  <<content[1] + content[3] + content[5] + content[7],
    content[2] + content[4] + content[6] + content[8]>>

MouseEvent(type, at) == Params(type, at[1], at[2], "", 0, "")

\* click(): what follows the response msg at each await
ResumeClick(b, o, msg) ==
  LET op == b.ops[o]
      selector == op.input[1]
  IN IF Failed(msg) THEN Fail(b, o, ProtocolErr(msg))
     ELSE CASE op.pc = "DOM.enable" ->
                 Command(b, o, "DOM.getDocument", Params("", 0, 0, "", 0, ""),
                         "DOM.getDocument")
            [] op.pc = "DOM.getDocument" ->
                 IF The(msg.result).root = {}
                 THEN Fail(b, o, ElementNotFoundError(selector))
                 ELSE Command(b, o, "DOM.querySelector",
                              Params("", 0, 0, "", The(The(msg.result).root).nodeId,
                                     selector),
                              "DOM.querySelector")
            [] op.pc = "DOM.querySelector" ->
                 IF Missing(The(msg.result).nodeId)
                 THEN Fail(b, o, ElementNotFoundError(selector))
                 ELSE Command(b, o, "DOM.getBoxModel",
                              Params("", 0, 0, "", The(msg.result).nodeId, ""),
                              "DOM.getBoxModel")
            [] op.pc = "DOM.getBoxModel" ->
                 LET content == The(msg.result).model.content
                 IN Command([b EXCEPT !.ops[o].model = content], o,
                            "Input.dispatchMouseEvent",
                            MouseEvent("mousePressed", Center(content)),
                            "mousePressed")
            [] op.pc = "mousePressed" ->
                 LET press == op.cmds[Len(op.cmds)].params
                 IN Command(b, o, "Input.dispatchMouseEvent",
                            MouseEvent("mouseReleased", <<press.x, press.y>>),
                            "mouseReleased")
            [] OTHER -> Done(b, o, {})

\* ---- Page.press() ----
Keys == {"Enter", "A", "InvalidKey"}

\* key.toLowerCase()
ToLowerCase(key) ==
  CASE key = "Enter" -> "enter"
    [] key = "A" -> "a"
    [] key = "InvalidKey" -> "invalidkey"
    [] OTHER -> key

\* keycode(name): the code of a name the library knows, undefined ({}) for
\* any other
Keycode(name) ==
  CASE name = "enter" -> {13}
    [] name = "a" -> {65}
    [] OTHER -> {}

InvalidKeyError(key) ==
  [name |-> "InvalidKeyError", detail |-> key, targetId |-> 0]

UndefinedNever(code) == FALSE

\* if (code === undefined)
Undefined(code) == code = {}

\* windowsVirtualKeyCode: code (an undefined one is left out of the JSON text)
CodeParam(code) == IF code = {} THEN 0 ELSE The(code)

KeyDown(key, code) == Params("keyDown", 0, 0, key, CodeParam(code), "")

KeyUp(key, code) == Params("keyUp", 0, 0, key, CodeParam(code), "")

\* press(key) up to its first await
Press(b, o) ==
  LET key == b.ops[o].input[1]
      code == Keycode(ToLowerCase(key))
  IN IF Undefined(code) THEN Fail(b, o, InvalidKeyError(key))
     ELSE Command(b, o, "Input.dispatchKeyEvent", KeyDown(key, code), "keyDown")

\* press(): what follows the response msg at each await
ResumePress(b, o, msg) ==
  LET key == b.ops[o].input[1]
      code == Keycode(ToLowerCase(key))
  IN IF Failed(msg) THEN Fail(b, o, ProtocolErr(msg))
     ELSE IF b.ops[o].pc = "keyDown"
          THEN Command(b, o, "Input.dispatchKeyEvent", KeyUp(key, code), "keyUp")
          ELSE Done(b, o, {})

\* ---- Page.type() ----
\* char.charCodeAt(0): the first UTF-16 unit of the character
CharCodeAt0(char) ==
  CASE char = "H" -> 72
    [] char = "U+1F600" -> 55357
    [] OTHER -> 0

\* the characters that `for (const char of text)` goes through
Chars == {"H", "U+1F600"}

Texts == UNION {[1..n -> Chars] : n \in 0..MaxLen}

Delays == {0, 50}

TypeLoopEndsEarly(text, i) == i > 1 \/ i > Len(text)

\* the for loop has gone through the text when it comes to character i
TypeLoopEnd(text, i) == i > Len(text)

\* the loop body of type() for character i, up to its first await
TypeChar(b, o, i) ==
  LET text == b.ops[o].input
  IN IF TypeLoopEnd(text, i) THEN Done(b, o, {})
     ELSE Command(b, o, "Input.dispatchKeyEvent",
                  Params("keyDown", 0, 0, "", CharCodeAt0(text[i]), text[i]),
                  "keyDown")

\* type(): what follows the response msg at each await
ResumeType(b, o, msg) ==
  LET op == b.ops[o]
      n == Len(op.cmds)
  IN IF Failed(msg) THEN Fail(b, o, ProtocolErr(msg))
     ELSE IF op.pc = "keyDown"
          THEN Command(b, o, "Input.dispatchKeyEvent",
                       Params("keyUp", 0, 0, "", CharCodeAt0(op.input[(n + 1) \div 2]), ""),
                       "keyUp")
          ELSE IF op.delay # 0
               THEN [b EXCEPT !.ops[o].pc = "delay"]
               ELSE TypeChar(b, o, (n \div 2) + 1)

\* ---- Page.close() ----
\* what the response msg says
Outcome(msg) ==
  IF msg.error # {} THEN "error"
  ELSE IF The(msg.result).success THEN "success" ELSE "failure"

CloseAckedAny(msg) == ~Failed(msg)

\* send() has not thrown and `if (!result.success)` has not either
CloseAcked(msg) == IF Failed(msg) THEN FALSE ELSE The(msg.result).success

\* ---- Page.goto() ----
NavigationError == Err("NavigationError", "Navigation failed")

\* the event waitForNavigation(waitUntil) listens for
LifecycleEvent(waitUntil) ==
  IF waitUntil = "load" THEN "Page.loadEventFired" ELSE "Page.domContentEventFired"

\* waitForNavigation(waitUntil): this.connection.once(event, () => resolve())
WaitForNavigation(b, o) ==
  [b EXCEPT !.conns[b.ops[o].conn].listeners[LifecycleEvent(b.ops[o].waitUntil)] =
              AddListener(@, [fn |-> 1, once |-> TRUE, call |-> o]),
            !.ops[o].pc = "wait"]

\* ---- what a call does when the response it awaits arrives ----
\* msg answers request id of call o; killOk: whether a kill() would work
Resume(b, o, id, msg, killOk) ==
  LET op == b.ops[o]
      b1 == [b EXCEPT !.ops[o].wait = @ \ {id}]
  IN IF op.pc \in {"done", "failed"} \/ id \notin op.wait THEN b
     ELSE CASE op.kind = "send" ->
                 IF Failed(msg) THEN Fail(b1, o, ProtocolErr(msg))
                 ELSE Done(b1, o, msg.result)
            [] op.kind = "targets" ->
                 IF Failed(msg) THEN Fail(b1, o, ProtocolErr(msg))
                 ELSE Done(b1, o, The(msg.result).targetInfos)
            [] op.kind = "close" /\ op.pc = "list" ->
                 IF Failed(msg) THEN Fail(b1, o, ProtocolErr(msg))
                 ELSE LET tids == PageTargets(The(msg.result).targetInfos)
                      IN IF tids = {} THEN Teardown(b1, o, killOk)
                         ELSE CloseTargets(b1, o, tids)
            [] op.kind = "close" /\ op.pc = "closing" ->
                 IF Failed(msg) THEN Fail(Step(b1, o, "nack"), o, ProtocolErr(msg))
                 ELSE IF ~The(msg.result).success
                      THEN Fail(Step(b1, o, "nack"), o, Err("TargetClosedError", "target"))
                      ELSE IF AllAcked(b1.ops[o].wait)
                           THEN Teardown(Step(b1, o, "ack"), o, killOk)
                           ELSE Step(b1, o, "ack")
            [] op.kind = "launch" /\ op.pc = "list" ->
                 IF Failed(msg) THEN Fail(b1, o, Err("BrowserLaunchError", The(msg.error).message))
                 ELSE LET tids == PageTargets(The(msg.result).targetInfos)
                          b2   == IF tids = {} THEN Done(b1, o, {})
                                  ELSE CloseTargets(b1, o, tids)
                      IN IF b2.ops[o].pc = "failed"
                         THEN Fail(b2, o, Err("BrowserLaunchError", The(b2.ops[o].err).detail))
                         ELSE b2
            [] op.kind = "launch" /\ op.pc = "closing" ->
                 IF Failed(msg) \/ ~The(msg.result).success
                 THEN Fail(b1, o, Err("BrowserLaunchError", "Target has been closed"))
                 ELSE IF b1.ops[o].wait = {} THEN Done(b1, o, {}) ELSE b1
            [] op.kind = "newPage" /\ op.pc = "create" ->
                 IF Failed(msg) THEN Fail(b1, o, ProtocolErr(msg))
                 ELSE LET t == The(msg.result).targetId
                      IN IF b1.connection = 0
                         THEN Fail(b1, o, Err("TypeError", "this.connection is null"))
                         ELSE SendOr([b1 EXCEPT !.ops[o].tid = t], b1.connection, o,
                                     "Target.attachToTarget", t, "attach")
            [] op.kind = "newPage" /\ op.pc = "attach" ->
                 IF Failed(msg) THEN Fail(b1, o, ProtocolErr(msg))
                 ELSE IF b1.chrome = 0
                      THEN Fail(b1, o, Err("TypeError", "this.chrome is null"))
                      ELSE [b1 EXCEPT !.ops[o].pc = "fetch", !.ops[o].proc = b1.chrome]
            [] op.kind = "goto" /\ op.pc = "enable" ->
                 IF Failed(msg) THEN Fail(b1, o, NavigationError)
                 ELSE LET b2 == SendOr(b1, op.conn, o, "Page.navigate", 0, "navigate")
                      IN IF b2.ops[o].pc = "failed" THEN Fail(b2, o, NavigationError)
                         ELSE b2
            [] op.kind = "goto" /\ op.pc = "navigate" ->
                 IF Failed(msg) THEN Fail(b1, o, NavigationError)
                 ELSE IF op.waitUntil = "" THEN Done(b1, o, {})
                      ELSE WaitForNavigation(b1, o)
            [] op.kind = "click" -> ResumeClick(b1, o, msg)
            [] op.kind = "press" -> ResumePress(b1, o, msg)
            [] op.kind = "type" -> ResumeType(b1, o, msg)
            [] op.kind = "pageClose" ->
                 LET b2 == Step(b1, o, Outcome(msg))
                 IN IF CloseAcked(msg) THEN Done(b2, o, {})
                    ELSE Fail(b2, o, Err("Error", "Failed to close target"))
            [] OTHER -> b1

PageOverRoot(b, o) == [connection |-> b.connection, targetId |-> b.ops[o].tid]

\* new Page(pageConnection, targetId)
NewPage(b, o) == [connection |-> b.ops[o].conn, targetId |-> b.ops[o].tid]

\* what a call suspended in connect() does when connect() resolves
Connected(b, o) ==
  CASE b.ops[o].kind = "launch" ->
         LET b1 == Targets(b, o)
         IN IF b1.ops[o].pc = "failed"
            THEN Fail(b1, o, Err("BrowserLaunchError", The(b1.ops[o].err).detail))
            ELSE b1
    [] b.ops[o].kind = "newPage" ->
         Done(b, o, {NewPage(b, o)})
    [] OTHER -> b

\* ... and when connect() rejects
ConnectRejected(b, o, m) ==
  CASE b.ops[o].kind = "launch" ->
         Fail(b, o, Err("BrowserLaunchError", ConnectionError(m, "url").message[1]))
    [] OTHER -> Fail(b, o, Err("ConnectionError", m))

\* the call suspended in connect() of instance c, if any
Awaiting(c) == {o \in 1..Len(ops) : ops[o].pc = "connect" /\ ops[o].conn = c}

\* the variables of the single Connection of the first part
Apart ==
  UNCHANGED <<ws, sockets, messageId, pendingMessages, calls, listeners, fired,
              regs, stack, emitNo, atClose, lost, lastIn, heard, order, life>>

\* ---- the transport of an instance ----
PeerUp(c) ==
  IF conns[c].url.proc = 0 THEN TRUE
  ELSE /\ procs[conns[c].url.proc].alive
       /\ IF conns[c].url.target = 0 THEN TRUE
          ELSE OpenTarget(procs[conns[c].url.proc], conns[c].url.target)

\* ws "open" on instance c
ConnOpened(c) ==
  /\ conns[c].readyState = "CONNECTING"
  /\ PeerUp(c)
  /\ LET b1 == [Cur EXCEPT !.conns[c].readyState = "OPEN",
                            !.conns[c].connectP = SettleConnect(@, "resolved")]
     IN Becomes(IF Awaiting(c) = {} THEN b1 ELSE Connected(b1, The(Awaiting(c))))
  /\ Apart

\* ws "error" then "close" on instance c before the handshake is over
ConnFailed(c) ==
  /\ conns[c].readyState \in {"CONNECTING", "CLOSING"}
  /\ conns[c].connectP = "pending"
  /\ \E m \in TransportErrors :
       LET b1 == [Cur EXCEPT !.conns[c].readyState = "CLOSED",
                             !.conns[c].connectP = SettleConnect(@, "rejected")]
       IN Becomes(IF Awaiting(c) = {} THEN b1
                  ELSE ConnectRejected(b1, The(Awaiting(c)), m))
  /\ Apart

\* ws "close" on instance c after the handshake: the closing handshake of
\* close() ended, or the peer (process, target) is gone; emits "disconnected"
ConnEnded(c) ==
  /\ conns[c].readyState \in {"OPEN", "CLOSING"}
  /\ conns[c].connectP = "resolved"
  /\ conns[c].readyState = "CLOSING" \/ ~PeerUp(c)
  /\ Becomes([Cur EXCEPT !.conns[c].readyState = "CLOSED", !.conns[c].out = {}])
  /\ Apart

\* ---- the "message" handler of instance c on a response ----
Peer(c) == IF conns[c].url.proc = 0 THEN NewProc({}) ELSE procs[conns[c].url.proc]

Answer(c, r, a, killOk) ==
  /\ conns[c].readyState \in {"OPEN", "CLOSING"}
  /\ conns[c].connectP = "resolved"
  /\ IF conns[c].url.proc = 0 THEN TRUE ELSE procs[conns[c].url.proc].alive
  /\ LET b0 == IF conns[c].url.proc = 0 THEN Cur
               ELSE [Cur EXCEPT !.procs[conns[c].url.proc] = a.proc]
         b1 == [b0 EXCEPT !.conns[c].out = @ \ {r}]
         pending == Lookup(conns[c].pendingMessages, a.msg.id)
     IN IF pending = {} THEN Becomes(b1)
        ELSE Becomes(Resume([b1 EXCEPT !.conns[c].pendingMessages =
                                         {e \in @ : e.id # a.msg.id}],
                            The(pending).call, a.msg.id, a.msg, killOk))
  /\ Apart

\* the "message" handler of instance c on an event: emit() to opaque handlers
\* run in order; a once() handler is out of the registry afterwards
\* (seen: the events delivered to the Connection of a goto() call since its
\* Page.navigate was written)
ConnEvent(c, ev) ==
  /\ conns[c].readyState \in {"OPEN", "CLOSING"}
  /\ conns[c].connectP = "resolved"
  /\ conns' = [conns EXCEPT ![c].listeners[ev] = SelectSeq(@, LAMBDA l : ~l.once)]
  /\ ops' = [o \in 1..Len(ops) |->
              IF ops[o].kind = "goto" /\ ops[o].conn = c
                 /\ ops[o].pc \in {"navigate", "wait"}
              THEN IF \E i \in 1..Len(conns[c].listeners[ev]) :
                        conns[c].listeners[ev][i].call = o
                   THEN [ops[o] EXCEPT !.pc = "done", !.seen = @ \cup {ev}]
                   ELSE [ops[o] EXCEPT !.seen = @ \cup {ev}]
              ELSE ops[o]]
  /\ UNCHANGED <<chrome, connection, procs>>
  /\ Apart

\* ---- the process on its own ----
\* a target whose close was acknowledged leaves the listing
TargetGone(p, t) ==
  /\ procs[p].alive
  /\ \E x \in procs[p].targets : x.id = t /\ x.state = "closing"
  /\ procs' = [procs EXCEPT ![p].targets = {x \in @ : x.id # t}]
  /\ UNCHANGED <<conns, ops, chrome, connection>>
  /\ Apart

\* an open target goes away by itself (its window is closed, it crashes)
TargetLost(p, t) ==
  /\ procs[p].alive
  /\ OpenTarget(procs[p], t)
  /\ procs' = [procs EXCEPT ![p].targets = {x \in @ : x.id # t}]
  /\ UNCHANGED <<conns, ops, chrome, connection>>
  /\ Apart

\* the process opens a page target by itself (a popup, a new window)
TargetOpened(p) ==
  /\ procs[p].alive
  /\ procs[p].nextTid <= MaxTargets
  /\ procs' = [procs EXCEPT ![p].targets = @ \cup {Target(procs[p].nextTid, "page")},
                            ![p].nextTid = @ + 1]
  /\ UNCHANGED <<conns, ops, chrome, connection>>
  /\ Apart

\* the calls made so far, launch() and newPage() apart
Calls == Cardinality({o \in 1..Len(ops) : ops[o].kind \notin {"launch", "newPage"}})

\* ---- calls on a Connection instance ----
\* new CDPConnection(url) and connect(), as Browser calls them one after the other
ConnNew ==
  /\ Len(conns) < MaxConns
  /\ conns' = Append(conns, Connecting(NewConnection(UrlOf(0, Len(conns) + 1))))
  /\ UNCHANGED <<ops, chrome, connection, procs>>
  /\ Apart

\* send(method) on instance c
ConnSend(c, method) ==
  /\ Calls < MaxOps
  /\ LET o == Len(ops) + 1
         b == [Cur EXCEPT !.ops = Append(@, [NewOp("send", "start") EXCEPT !.conn = c])]
     IN Becomes(SendOr(b, c, o, method, 0, "wait"))
  /\ Apart

\* Page.goto(url, {waitUntil}) on the Page of instance c
GotoCall(c, waitUntil) ==
  /\ Calls < MaxOps
  /\ LET o == Len(ops) + 1
         b == [Cur EXCEPT !.ops = Append(@, [NewOp("goto", "start") EXCEPT
                                               !.conn = c, !.waitUntil = waitUntil])]
         b1 == SendOr(b, c, o, "Page.enable", 0, "enable")
     IN Becomes(IF b1.ops[o].pc = "failed" THEN Fail(b1, o, NavigationError) ELSE b1)
  /\ Apart

\* Page.click(selector) on the Page of instance c
ClickCall(c, selector) ==
  /\ Calls < MaxOps
  /\ LET o == Len(ops) + 1
         b == [Cur EXCEPT !.ops = Append(@, [NewOp("click", "start") EXCEPT
                                               !.conn = c, !.input = <<selector>>])]
     IN Becomes(Command(b, o, "DOM.enable", Params("", 0, 0, "", 0, ""), "DOM.enable"))
  /\ Apart

\* Page.press(key) on the Page of instance c
PressCall(c, key) ==
  /\ Calls < MaxOps
  /\ LET o == Len(ops) + 1
         b == [Cur EXCEPT !.ops = Append(@, [NewOp("press", "start") EXCEPT
                                               !.conn = c, !.input = <<key>>])]
     IN Becomes(Press(b, o))
  /\ Apart

\* Page.type(text, {delay}) on the Page of instance c
TypeCall(c, text, delay) ==
  /\ Calls < MaxOps
  /\ LET o == Len(ops) + 1
         b == [Cur EXCEPT !.ops = Append(@, [NewOp("type", "start") EXCEPT
                                               !.conn = c, !.input = text,
                                               !.delay = delay])]
     IN Becomes(TypeChar(b, o, 1))
  /\ Apart

\* the timer of `setTimeout(resolve, options.delay)` in call o fires
Elapsed(o) ==
  /\ ops[o].kind = "type"
  /\ ops[o].pc = "delay"
  /\ Becomes(TypeChar(Cur, o, (Len(ops[o].cmds) \div 2) + 1))
  /\ Apart

\* on(ev, handler) or once(ev, handler) on instance c, which has no handler
\* for ev yet
ConnOn(c, ev, once) ==
  /\ conns[c].listeners[ev] = <<>>
  /\ conns' = [conns EXCEPT ![c].listeners[ev] =
                  AddListener(@, [fn |-> 1, once |-> once, call |-> 0])]
  /\ UNCHANGED <<ops, chrome, connection, procs>>
  /\ Apart

\* close() on instance c
ConnClose(c) ==
  /\ conns' = [conns EXCEPT ![c] = Closed(@)]
  /\ UNCHANGED <<ops, chrome, connection, procs>>
  /\ Apart

\* ---- Browser.launch() ----
LaunchCall ==
  /\ ops' = Append(ops, NewOp("launch", "spawn"))
  /\ UNCHANGED <<conns, chrome, connection, procs>>
  /\ Apart

\* the values of options.windowSize
WindowSizes == {[width |-> 1920, height |-> 1080], [width |-> 0, height |-> 0]}

\* the values of options.chromeFlags, a chrome-launcher option
FlagLists == {<<>>, <<"--no-sandbox">>}

\* the values of LaunchOptions: headless, windowSize and the chrome-launcher
\* options, each of them optional ({}: left out)
LaunchOptions ==
  [headless : BOOLEAN,
   windowSize : {{}} \cup {{w} : w \in WindowSizes},
   chromeFlags : {{}} \cup {{f} : f \in FlagLists}]

\* `--window-size=${options.windowSize.width},${options.windowSize.height}`
WindowSizeFlag(w) ==
  "--window-size=" \o ToString(w.width) \o "," \o ToString(w.height)

\* the chromeFlags array that launch() builds from options
ChromeFlags(options) ==
  (IF options.headless THEN <<"--headless", "--disable-gpu">> ELSE <<>>)
  \o (IF options.windowSize # {} THEN <<WindowSizeFlag(The(options.windowSize))>>
      ELSE <<>>)

\* the chromeFlags of { chromeFlags, ...options }: a chromeFlags key of
\* options comes later in the literal and replaces the array built
Handed(options) ==
  IF options.chromeFlags # {} THEN The(options.chromeFlags)
  ELSE ChromeFlags(options)

\* launch(options) up to its first await (input: the chromeFlags handed to
\* ChromeLauncher.launch)
LaunchWith(options) ==
  /\ ops' = Append(ops, [NewOp("launch", "spawn") EXCEPT
                           !.options = options, !.input = Handed(options)])
  /\ UNCHANGED <<conns, chrome, connection, procs>>
  /\ Apart

\* this.chrome = await ChromeLauncher.launch(...)
Spawned(o, init) ==
  /\ ops[o].kind = "launch" /\ ops[o].pc = "spawn"
  /\ procs' = Append(procs, NewProc(init))
  /\ chrome' = Len(procs) + 1
  /\ ops' = [ops EXCEPT ![o].pc = "fetch", ![o].proc = Len(procs) + 1]
  /\ UNCHANGED <<conns, connection>>
  /\ Apart

\* ChromeLauncher.launch or fetch(/json/version) rejects: catch, throw
LaunchFailed(o) ==
  /\ ops[o].kind = "launch" /\ ops[o].pc \in {"spawn", "fetch"}
  /\ Becomes(Fail(Cur, o, Err("BrowserLaunchError", ops[o].pc)))
  /\ Apart

\* the endpoint answered: this.connection = new CDPConnection(wsUrl); connect()
Fetched(o) ==
  /\ ops[o].kind = "launch" /\ ops[o].pc = "fetch"
  /\ procs[ops[o].proc].alive
  /\ conns' = Append(conns, Connecting(NewConnection(UrlOf(ops[o].proc, 0))))
  /\ connection' = Len(conns) + 1
  /\ ops' = [ops EXCEPT ![o].pc = "connect", ![o].conn = Len(conns) + 1]
  /\ UNCHANGED <<chrome, procs>>
  /\ Apart

\* ---- Browser.close(), Browser.targets() ----
CloseCallUnguarded(killOk) ==
  /\ Calls < MaxOps
  /\ LET o == Len(ops) + 1
         b == [Cur EXCEPT !.ops = Append(@, NewOp("close", "start"))]
     IN Becomes(Targets(b, o))
  /\ Apart

CloseCall(killOk) ==
  /\ Calls < MaxOps
  /\ LET o == Len(ops) + 1
         b == [Cur EXCEPT !.ops = Append(@, NewOp("close", "start"))]
     IN Becomes(IF connection # 0 THEN Targets(b, o) ELSE Kill(b, o, killOk))
  /\ Apart

\* fresh: a launch() has succeeded, and no newPage() and no close() was called
Fresh ==
  /\ \E o \in 1..Len(ops) : ops[o].kind = "launch" /\ ops[o].pc = "done"
  /\ \A o \in 1..Len(ops) : ops[o].kind \in {"launch", "targets"}

TargetsCall ==
  /\ Calls < MaxOps
  /\ LET o == Len(ops) + 1
         b == [Cur EXCEPT !.ops = Append(@, [NewOp("targets", "start") EXCEPT
                                               !.fresh = Fresh])]
     IN Becomes(Targets(b, o))
  /\ Apart

\* ---- Browser.newPage() ----
NewPageCall ==
  /\ Cardinality({o \in 1..Len(ops) : ops[o].kind = "newPage"}) < MaxPages
  /\ LET o == Len(ops) + 1
         b == [Cur EXCEPT !.ops = Append(@, NewOp("newPage", "start"))]
     IN Becomes(IF connection = 0
                THEN Fail(b, o, Err("BrowserNotConnectedError", "create new page"))
                ELSE IF chrome = 0
                     THEN Fail(b, o, Err("BrowserLaunchError", "create new chromium instance"))
                     ELSE SendOr(b, connection, o, "Target.createTarget", 0, "create"))
  /\ Apart

FindAny(listing, tid) ==
  IF listing = {} THEN {}
  ELSE {CHOOSE t \in listing : \A x \in listing : t.targetId <= x.targetId}

\* targets.find((t) => t.id === targetId)
FindTarget(listing, tid) == {t \in listing : t.targetId = tid}

NotFoundRetry(b, o) == b

\* if (!target) throw new TargetClosedError(targetId)
NotFound(b, o) == Fail(b, o, TargetClosedError(b.ops[o].tid))

\* what the endpoint's /json can answer to call o: the targets of the process,
\* or those without the one just created (the listing has not caught up)
HttpListings(o) ==
  IF ops[o].proc \in 1..Len(procs)
  THEN LET all == Listing(procs[ops[o].proc])
       IN {all, {t \in all : t.targetId # ops[o].tid}}
  ELSE {}

\* fetch(/json) answered with listing: find the target (listed: the ids of the
\* entries that find() returned), open its own Connection
FetchList(o, listing) ==
  /\ ops[o].kind = "newPage" /\ ops[o].pc = "fetch"
  /\ procs[ops[o].proc].alive
  /\ LET target == FindTarget(listing, ops[o].tid)
         b == [Step(Cur, o, "lookup") EXCEPT
                 !.ops[o].listed = {t.targetId : t \in target}]
     IN IF target = {}
        THEN Becomes(NotFound(b, o))
        ELSE Becomes([b EXCEPT
                           !.conns = Append(@, Connecting(NewConnection(
                                        UrlOf(ops[o].proc, The(target).targetId)))),
                           !.ops[o].pc = "connect",
                           !.ops[o].conn = Len(conns) + 1])
  /\ Apart

\* fetch(/json) rejects: the process is gone
FetchFailed(o) ==
  /\ ops[o].kind = "newPage" /\ ops[o].pc = "fetch"
  /\ ~procs[ops[o].proc].alive
  /\ Becomes(Fail(Cur, o, Err("FetchError", "fetch failed")))
  /\ Apart

\* ---- Page.close() ----
PageCloseCall(pg) ==
  /\ Calls < MaxOps
  /\ ops[pg].kind = "newPage" /\ ops[pg].pc = "done"
  /\ LET page == The(ops[pg].result)
         o == Len(ops) + 1
         b == [Cur EXCEPT !.ops = Append(@, [NewOp("pageClose", "start") EXCEPT
                                               !.tid = page.targetId])]
     IN Becomes(LET b1 == SendOr(b, page.connection, o, "Target.closeTarget",
                                    page.targetId, "closing")
                   IN IF b1.ops[o].pc = "failed"
                      THEN Fail(b1, o, Err("Error", "Failed to close target"))
                      ELSE [b1 EXCEPT !.ops[o].cmds =
                              Append(@, [method |-> "Target.closeTarget",
                                         params |-> Params("", 0, 0, "", page.targetId,
                                                           "")])])
  /\ Apart

\* ---- specifications of this part ----
\* two Connection instances side by side
TwoNext ==
  \/ ConnNew
  \/ \E c \in 1..Len(conns) : ConnOpened(c)
  \/ \E c \in 1..Len(conns) : ConnSend(c, "Page.navigate")
  \/ \E c \in 1..Len(conns) : \E r \in conns[c].out :
       \E a \in ChromeAnswers(Peer(c), r) : Answer(c, r, a, TRUE)
  \/ \E c \in 1..Len(conns) : \E ev \in CdpEvents : ConnEvent(c, ev)
  \/ \E c \in 1..Len(conns) : \E ev \in CdpEvents : ConnOn(c, ev, TRUE)
  \/ \E c \in 1..Len(conns) : ConnClose(c)

SpecTwo == Init /\ [][TwoNext]_vars

NoLaunchYet == \A o \in 1..Len(ops) : ops[o].kind # "launch"

Launched == \E o \in 1..Len(ops) : ops[o].kind = "launch" /\ ops[o].pc = "done"

NoCloseRunning ==
  \A o \in 1..Len(ops) : ops[o].kind = "close" => ops[o].pc \in {"done", "failed"}

\* a Browser launched once, then closed by one close() after the other; the
\* process opens targets meanwhile
CloseNext ==
  \/ NoLaunchYet /\ LaunchCall
  \/ \E o \in 1..Len(ops) : \E init \in InitialTargets : Spawned(o, init)
  \/ \E o \in 1..Len(ops) : Fetched(o)
  \/ \E c \in 1..Len(conns) : ConnOpened(c)
  \/ \E c \in 1..Len(conns) : ConnEnded(c)
  \/ \E c \in 1..Len(conns) : \E r \in conns[c].out :
       \E a \in ChromeAnswers(Peer(c), r) : Answer(c, r, a, TRUE)
  \/ \E p \in 1..Len(procs) : Launched /\ TargetOpened(p)
  \/ \E p \in 1..Len(procs) : \E t \in 1..procs[p].nextTid : TargetGone(p, t)
  \/ Launched /\ NoCloseRunning /\ CloseCall(TRUE)

SpecClose == Init /\ [][CloseNext]_vars

\* a Browser launched once, and targets() called on it
LaunchNext ==
  \/ NoLaunchYet /\ LaunchCall
  \/ \E o \in 1..Len(ops) : \E init \in InitialTargets : Spawned(o, init)
  \/ \E o \in 1..Len(ops) : LaunchFailed(o)
  \/ \E o \in 1..Len(ops) : Fetched(o)
  \/ \E c \in 1..Len(conns) : ConnOpened(c)
  \/ \E c \in 1..Len(conns) : ConnFailed(c)
  \/ \E c \in 1..Len(conns) : \E r \in conns[c].out :
       \E a \in ChromeAnswers(Peer(c), r) : Answer(c, r, a, TRUE)
  \/ \E p \in 1..Len(procs) : \E t \in 1..procs[p].nextTid : TargetGone(p, t)
  \/ TargetsCall

SpecLaunch == Init /\ [][LaunchNext]_vars

\* a Browser launched once, with any options
FlagsNext ==
  \/ NoLaunchYet /\ \E options \in LaunchOptions : LaunchWith(options)
  \/ \E o \in 1..Len(ops) : \E init \in InitialTargets : Spawned(o, init)
  \/ \E o \in 1..Len(ops) : LaunchFailed(o)
  \/ \E o \in 1..Len(ops) : Fetched(o)
  \/ \E c \in 1..Len(conns) : ConnOpened(c)
  \/ \E c \in 1..Len(conns) : ConnFailed(c)
  \/ \E c \in 1..Len(conns) : \E r \in conns[c].out :
       \E a \in ChromeAnswers(Peer(c), r) : Answer(c, r, a, TRUE)

SpecFlags == Init /\ [][FlagsNext]_vars

\* the Connection instances of the Pages that newPage() returned
PageConns ==
  {The(ops[o].result).connection :
     o \in {x \in 1..Len(ops) : ops[x].kind = "newPage" /\ ops[x].pc = "done"}}

\* every newPage() call made so far has settled
PagesSettled ==
  \A o \in 1..Len(ops) : ops[o].kind = "newPage" => ops[o].pc \in {"done", "failed"}

\* a Browser launched once, its Pages, and what is done with them
PagesNext ==
  \/ NoLaunchYet /\ LaunchCall
  \/ \E o \in 1..Len(ops) : Spawned(o, {})
  \/ \E o \in 1..Len(ops) : Fetched(o)
  \/ \E c \in 1..Len(conns) : ConnOpened(c)
  \/ \E c \in 1..Len(conns) : ConnEnded(c)
  \/ \E c \in 1..Len(conns) : \E r \in conns[c].out :
       \E a \in ChromeAnswers(Peer(c), r) : Answer(c, r, a, TRUE)
  \/ Launched /\ NewPageCall
  \/ \E o \in 1..Len(ops) :
       \E listing \in HttpListings(o) : FetchList(o, listing)
  \/ PagesSettled /\ \E pg \in 1..Len(ops) : PageCloseCall(pg)
  \/ PagesSettled /\ \E c \in PageConns : ConnSend(c, "Page.navigate")

SpecPages == Init /\ [][PagesNext]_vars

\* no call is in flight
Quiescent == \A o \in 1..Len(ops) : ops[o].pc \in {"done", "failed"}

\* launch() apart, at most MaxOps calls are made, newPage() included
FewCalls == Cardinality({o \in 1..Len(ops) : ops[o].kind # "launch"}) < MaxOps

\* a Browser through its life: a launch() that may fail at any step, and
\* targets(), newPage() and close() called one after the other
BrowserNext ==
  \/ NoLaunchYet /\ Quiescent /\ LaunchCall
  \/ \E o \in 1..Len(ops) : \E init \in InitialTargets : Spawned(o, init)
  \/ \E o \in 1..Len(ops) : LaunchFailed(o)
  \/ \E o \in 1..Len(ops) : Fetched(o)
  \/ \E c \in 1..Len(conns) : ConnOpened(c)
  \/ \E c \in 1..Len(conns) : ConnFailed(c)
  \/ \E c \in 1..Len(conns) : ConnEnded(c)
  \/ \E c \in 1..Len(conns) : \E r \in conns[c].out :
       \E a \in ChromeAnswers(Peer(c), r) : \E killOk \in BOOLEAN :
         Answer(c, r, a, killOk)
  \/ \E p \in 1..Len(procs) : \E t \in 1..procs[p].nextTid : TargetLost(p, t)
  \/ Quiescent /\ FewCalls /\ TargetsCall
  \/ Quiescent /\ FewCalls /\ NewPageCall
  \/ \E o \in 1..Len(ops) : \E listing \in HttpListings(o) : FetchList(o, listing)
  \/ Quiescent /\ FewCalls /\ \E killOk \in BOOLEAN : CloseCall(killOk)

SpecBrowser == Init /\ [][BrowserNext]_vars

\* launch() was called at most once, and close() never
MayLaunch ==
  /\ Cardinality({o \in 1..Len(ops) : ops[o].kind = "launch"}) <= 1
  /\ \A o \in 1..Len(ops) : ops[o].kind # "close"

\* a Browser on which launch() is called once or twice, each call after the
\* one before has settled, and then close(); kill() works
RelaunchNext ==
  \/ Quiescent /\ MayLaunch /\ LaunchCall
  \/ \E o \in 1..Len(ops) : \E init \in InitialTargets : Spawned(o, init)
  \/ \E o \in 1..Len(ops) : LaunchFailed(o)
  \/ \E o \in 1..Len(ops) : Fetched(o)
  \/ \E c \in 1..Len(conns) : ConnOpened(c)
  \/ \E c \in 1..Len(conns) : ConnEnded(c)
  \/ \E c \in 1..Len(conns) : \E r \in conns[c].out :
       \E a \in ChromeAnswers(Peer(c), r) : Answer(c, r, a, TRUE)
  \/ Quiescent /\ CloseCall(TRUE)

SpecRelaunch == Init /\ [][RelaunchNext]_vars

\* a launched Browser on which targets(), newPage() and close() overlap
RaceNext ==
  \/ NoLaunchYet /\ LaunchCall
  \/ \E o \in 1..Len(ops) : Spawned(o, {})
  \/ \E o \in 1..Len(ops) : Fetched(o)
  \/ \E c \in 1..Len(conns) : ConnOpened(c)
  \/ \E c \in 1..Len(conns) : ConnFailed(c)
  \/ \E c \in 1..Len(conns) : ConnEnded(c)
  \/ \E c \in 1..Len(conns) : \E r \in conns[c].out :
       \E a \in ChromeAnswers(Peer(c), r) : Answer(c, r, a, TRUE)
  \/ Launched /\ FewCalls /\ TargetsCall
  \/ Launched /\ FewCalls /\ NewPageCall
  \/ \E o \in 1..Len(ops) : \E listing \in HttpListings(o) : FetchList(o, listing)
  \/ \E o \in 1..Len(ops) : FetchFailed(o)
  \/ Launched /\ FewCalls /\ NoCloseRunning /\ CloseCall(TRUE)

SpecRace == Init /\ [][RaceNext]_vars

\* a Page that navigates: goto() calls, responses and lifecycle events on its
\* Connection
GotoNext ==
  \/ conns = <<>> /\ ConnNew
  \/ \E c \in 1..Len(conns) : ConnOpened(c)
  \/ \E c \in 1..Len(conns) : \E w \in WaitUntils : GotoCall(c, w)
  \/ \E c \in 1..Len(conns) : \E r \in conns[c].out :
       \E a \in ChromeAnswers(Peer(c), r) : Answer(c, r, a, TRUE)
  \/ \E c \in 1..Len(conns) : \E ev \in LifecycleEvents : ConnEvent(c, ev)

SpecGoto == Init /\ [][GotoNext]_vars

\* a Page that is clicked on
ClickNext ==
  \/ conns = <<>> /\ ConnNew
  \/ \E c \in 1..Len(conns) : ConnOpened(c)
  \/ \E c \in 1..Len(conns) : \E sel \in Selectors : ClickCall(c, sel)
  \/ \E c \in 1..Len(conns) : \E r \in conns[c].out :
       \E a \in ChromeAnswers(Peer(c), r) : Answer(c, r, a, TRUE)

SpecClick == Init /\ [][ClickNext]_vars

\* at most one call has been made
OneCall == Len(ops) <= 1

\* one Connection and two press() or type() calls of its Page, the second
\* one at any time
KeysNext ==
  \/ conns = <<>> /\ ConnNew
  \/ \E c \in 1..Len(conns) : ConnOpened(c)
  \/ OneCall /\ \E c \in 1..Len(conns) : \E key \in Keys : PressCall(c, key)
  \/ OneCall /\ \E c \in 1..Len(conns) : \E text \in Texts : \E delay \in Delays :
       TypeCall(c, text, delay)
  \/ \E o \in 1..Len(ops) : Elapsed(o)
  \/ \E c \in 1..Len(conns) : \E r \in conns[c].out :
       \E a \in ChromeAnswers(Peer(c), r) : Answer(c, r, a, TRUE)

SpecKeys == Init /\ [][KeysNext]_vars

\* ======================= request/response claims =======================
Settled(k) == calls[k].settledBy # {}

Written(k) == calls[k].id # {}

IsOpen == ws # 0 /\ sockets[ws].readyState = "OPEN"

\* C1: a response settles the call that was assigned the id it carries, whatever
\* the order of arrival, and a result response resolves that call with the
\* result the message carries; an error response rejects it.
C1_RoutedById ==
  \A k \in 1..Len(calls) :
    Settled(k) =>
      LET m == The(calls[k].settledBy)
      IN /\ m.id = calls[k].id
         /\ m.error = {} => /\ calls[k].state = "resolved"
                            /\ calls[k].result = m.result
         /\ m.error # {} => calls[k].state = "rejected"

\* two sends were outstanding together and the second was answered first
C1_Witness ==
  /\ Len(calls) = 2
  /\ Written(1) /\ calls[1].state = "pending"
  /\ calls[2].state = "resolved" /\ calls[2].result = {ResultOf(2)}

\* C2: every request pending when close() is called is rejected by that call,
\* so none of them is still suspended afterwards.
C2_CloseRejectsPending ==
  \A k \in atClose : calls[k].state = "rejected"

\* C3: the pending table holds id X iff a request with id X was written and has
\* been settled neither by a response nor by close().
C3_PendingIffUnsettled ==
  {e.id : e \in pendingMessages} =
    {The(calls[k].id) : k \in {j \in 1..Len(calls) :
                                 Written(j) /\ ~Settled(j) /\ j \notin atClose}}

\* C4: the ids of the successful send() calls, in call order, start at 1 and
\* are strictly increasing, across connects and closes.
C4_IdsIncrease ==
  LET ok == {k \in 1..Len(calls) : Written(k)}
  IN \A k \in ok :
       /\ (\A j \in ok : k <= j) => calls[k].id = {1}
       /\ \A j \in ok : j < k => The(calls[j].id) < The(calls[k].id)

\* a send, a close(), a new connect() and a second send
C4_Witness ==
  /\ Len(calls) = 2
  /\ Written(1) /\ Written(2)
  /\ 1 \in atClose

\* C5: a send() outside the Open state fails at once with the not-connected
\* error and allocates no id, registers no pending request, writes nothing.
C5_SendOutsideOpen ==
  [][(Len(calls') = Len(calls) + 1 /\ ~IsOpen) =>
       /\ calls'[Len(calls')].state = "rejected"
       /\ calls'[Len(calls')].error = {NotConnected}
       /\ calls'[Len(calls')].id = {}
       /\ UNCHANGED <<messageId, pendingMessages, sockets>>]_vars

\* a send() refused while the handshake is still running
C5_Witness ==
  /\ ws # 0 /\ sockets[ws].readyState = "CONNECTING"
  /\ calls # <<>> /\ calls[Len(calls)].error = {NotConnected}

\* C6: an error response rejects the matching send() with a ProtocolError that
\* carries the method of the command sent under that id, the remote message
\* and the remote code.
C6_ErrorCarriesCommandMethod ==
  \A k \in 1..Len(calls) :
    (Settled(k) /\ The(calls[k].settledBy).error # {}) =>
      LET err == The(The(calls[k].settledBy).error)
      IN calls[k].error = {ProtocolError(calls[k].method, err.message, err.code)}

\* C7: when a transport that was open goes down, the Connection only emits
\* "disconnected": no request is resolved or rejected, and the requests in
\* flight on it stay pending as long as close() has not been called.
C7_DownStep ==
  \A w \in 1..Len(sockets) :
    (/\ sockets[w].connectP = "resolved"
     /\ sockets[w].readyState # "CLOSED"
     /\ sockets'[w].readyState = "CLOSED") =>
      /\ UNCHANGED <<calls, pendingMessages, messageId, listeners, ws>>
      /\ sockets'[w].connectP = "resolved"
      /\ sockets'[w].notified = sockets[w].notified + 1
      /\ stack' = Emit(<<>>, listeners, "disconnected", {}, 1)

C7_StayPending ==
  \A k \in lost \ atClose :
    /\ calls[k].state = "pending"
    /\ \E e \in pendingMessages : e.call = k /\ {e.id} = calls[k].id

C7_DisconnectKeepsPending == []C7_StayPending /\ [][C7_DownStep]_vars

\* a request was in flight when its transport went down; nobody called close()
C7_Witness ==
  \E k \in lost \ atClose :
    /\ calls[k].state = "pending"
    /\ \A w \in 1..Len(sockets) : sockets[w].readyState = "CLOSED"

\* C14: connect() is pending while the handshake runs and resolves in the step
\* that completes it; an error before that rejects it with a ConnectionError
\* built from the transport's message; once settled it never changes.
SameSocket(w) ==
  /\ w <= Len(sockets)
  /\ ~(sockets[w].readyState = "CLOSED" /\ sockets'[w].readyState = "CONNECTING")

C14_State ==
  \A w \in 1..Len(sockets) :
    /\ sockets[w].readyState = "CONNECTING" => sockets[w].connectP = "pending"
    /\ sockets[w].connectP = "resolved" => sockets[w].connectErr = {}
    /\ sockets[w].connectP = "pending" => sockets[w].connectErr = {}
    /\ sockets[w].connectP = "rejected" =>
         /\ sockets[w].failure # {}
         /\ sockets[w].connectErr = {ConnectionError(The(sockets[w].failure), WsUrl)}
         /\ The(sockets[w].connectErr).message[1] = The(sockets[w].failure)

C14_Step ==
  \A w \in 1..Len(sockets') :
    SameSocket(w) =>
      /\ (sockets[w].connectP = "pending" /\ sockets'[w].connectP = "resolved") =>
           /\ sockets[w].readyState = "CONNECTING"
           /\ sockets'[w].readyState = "OPEN"
      /\ (sockets[w].connectP = "pending" /\ sockets'[w].connectP = "rejected") =>
           /\ sockets[w].failure = {}
           /\ sockets'[w].failure # {}
      /\ sockets[w].connectP # "pending" => sockets'[w].connectP = sockets[w].connectP

C14_ConnectSettlesOnce == []C14_State /\ [][C14_Step]_vars

\* the handshake of the current transport failed and rejected connect();
\* the transport has since reported nothing else
C14_Witness ==
  /\ ws # 0
  /\ sockets[ws].connectP = "rejected"
  /\ sockets[ws].connectErr # {}

\* ============================ event claims ============================
OnPart(s) == SelectSeq(s, LAMBDA x : regs[x.rid].api = "on")

\* C8: an event message starts a dispatch over the handlers registered for
\* its name, and the on() handlers among them are invoked once each, with the
\* message's params, in registration order; no handler of another name runs.
C8_Frame(f) ==
  LET done  == OnPart(SubSeq(f.snap, 1, f.i - 1))
      onLog == OnPart(f.log)
  IN /\ Len(onLog) = Len(done)
     /\ \A j \in 1..Len(onLog) :
          /\ onLog[j].rid = done[j].rid
          /\ onLog[j].params = f.params
     /\ \A j, k \in 1..Len(onLog) : j < k => onLog[j].rid < onLog[k].rid
     /\ \A j \in 1..Len(f.log) : regs[f.log[j].rid].ev = f.ev

C8_Start ==
  lastIn' # {} =>
    LET m  == The(lastIn')
        ev == The(m.method)
    IN IF listeners[ev] = <<>>
       THEN stack' = <<>>
       ELSE /\ Len(stack') = 1
            /\ stack'[1].ev = ev
            /\ stack'[1].params = m.params
            /\ stack'[1].snap = listeners[ev]
            /\ stack'[1].i = 1
            /\ stack'[1].log = <<>>

C8_OnHandlersInOrder ==
  [](\A d \in 1..Len(stack) : C8_Frame(stack[d])) /\ [][C8_Start]_vars

\* the dispatch of an event message has run two on() handlers
C8_Witness ==
  /\ Len(stack) = 1
  /\ stack[1].ev \in CdpEvents
  /\ stack[1].i > Len(stack[1].snap)
  /\ Len(OnPart(stack[1].log)) = 2

\* C9: a once() handler is invoked at most once, and it is out of the registry
\* as soon as it has been invoked.
C9_OnceAtMostOnce ==
  \A rid \in 1..Len(regs) :
    regs[rid].api = "once" =>
      /\ regs[rid].calls <= 1
      /\ regs[rid].calls = 1 =>
           \A e \in EventNames : \A j \in 1..Len(listeners[e]) :
             listeners[e][j].rid # rid

\* an emit() raised inside a handler fired the once() handler; the outer
\* dispatch, which holds it in its copy, has passed it without calling it
C9_Witness ==
  /\ Len(stack) = 1
  /\ stack[1].i > Len(stack[1].snap)
  /\ \E j \in 1..Len(stack[1].snap) :
       /\ regs[stack[1].snap[j].rid].api = "once"
       /\ regs[stack[1].snap[j].rid].calls = 1
       /\ \A x \in 1..Len(stack[1].log) : stack[1].log[x].rid # stack[1].snap[j].rid

\* C10: a dispatch runs over the list as it was when the dispatch started: a
\* handler added while it runs is not invoked by it, and every handler in the
\* registry when the next event message arrives is invoked for that one.
C10_Frame(f) ==
  /\ \A j \in 1..Len(f.log) : f.no \notin f.log[j].born
  /\ \A j \in 1..(f.i - 1) :
       \/ \E x \in 1..Len(f.log) : f.log[x].rid = f.snap[j].rid
       \/ f.snap[j].once /\ f.snap[j].rid \in fired

C10_Start ==
  lastIn' # {} =>
    \A j \in 1..Len(listeners[The(The(lastIn').method)]) :
      \E x \in 1..Len(stack'[1].snap) :
        stack'[1].snap[x].rid = listeners[The(The(lastIn').method)][j].rid

C10_DispatchOverSnapshot ==
  [](\A d \in 1..Len(stack) : C10_Frame(stack[d])) /\ [][C10_Start]_vars

\* a finished dispatch; a handler it invoked has added a handler for the same
\* event, which the dispatch did not invoke
C10_Witness ==
  /\ Len(stack) = 1
  /\ stack[1].i > Len(stack[1].snap)
  /\ \E j \in 1..Len(listeners[stack[1].ev]) :
       /\ stack[1].no \in listeners[stack[1].ev][j].born
       /\ \A x \in 1..Len(stack[1].log) :
            stack[1].log[x].rid # listeners[stack[1].ev][j].rid

\* ============================ order of events ============================
\* C11: the handlers of event message A, which arrived before event message
\* B, are all invoked before any handler is invoked for B, whatever
\* responses are handled between the two.
C11_EventsInArrivalOrder ==
  \A i, j \in 1..Len(order.trace) :
    (i < j /\ order.trace[i] > 0 /\ order.trace[j] > 0) =>
      order.trace[i] <= order.trace[j]

\* handlers ran for the first event message, a response settled a send(),
\* then handlers ran for the second event message
C11_Witness ==
  \E i, j, k \in 1..Len(order.trace) :
    /\ i < j /\ j < k
    /\ order.trace[i] = 1 /\ order.trace[j] = 0 /\ order.trace[k] = 2

\* ========================= close, connect, retry =========================
\* the step is a call of close()
IsCloseStep ==
  /\ life'.closes >= 1
  /\ life'.closes # life.closes \/ life.closes = 2

connState ==
  <<ws, sockets, messageId, pendingMessages, calls, listeners, fired, regs, stack>>

\* C12: a close() called right after a close() changes nothing in the
\* Connection; a close() on a Connection that never connected creates and
\* closes no transport and touches no request; no transport gets more than
\* one close() call.
C12_Step ==
  /\ (IsCloseStep /\ life.closes >= 1) => UNCHANGED connState
  /\ (IsCloseStep /\ sockets = <<>>) =>
       UNCHANGED <<ws, sockets, messageId, pendingMessages, calls, fired, regs, stack>>

C12_State == \A w \in 1..Len(sockets) : sockets[w].closeCalls <= 1

C12_CloseIdempotent == []C12_State /\ [][C12_Step]_vars

\* close() was called twice in a row on a Connection whose transport is still
\* closing and that has a request pending
C12_Witness ==
  /\ life.closes = 2
  /\ ws = 0
  /\ pendingMessages # {}
  /\ \E w \in 1..Len(sockets) :
       sockets[w].readyState = "CLOSING" /\ sockets[w].closeCalls = 1

\* C13: close() leaves the registry empty for every event name, connected or
\* not, and a handler registered before a close() is in no registry list and
\* in no dispatch afterwards.
C13_Step ==
  IsCloseStep => \A e \in EventNames : listeners'[e] = <<>>

C13_State ==
  \A rid \in 1..life.regsAtClose :
    /\ \A e \in EventNames : \A j \in 1..Len(listeners[e]) :
         listeners[e][j].rid # rid
    /\ \A d \in 1..Len(stack) : \A j \in 1..Len(stack[d].snap) :
         stack[d].snap[j].rid # rid

C13_CloseClearsListeners == []C13_State /\ [][C13_Step]_vars

\* a handler was registered, close() was called, a second handler was
\* registered, and an event message on the old transport is being dispatched
C13_Witness ==
  /\ life.regsAtClose = 1
  /\ regs[1].ev \in CdpEvents
  /\ ws = 0
  /\ Len(stack) = 1
  /\ stack[1].ev \in CdpEvents
  /\ Len(stack[1].log) = 1

\* C16: a transport is created only by a call of connect(), and a send()
\* writes one envelope, with its id and method, to the current transport;
\* nothing else writes, and no envelope is written twice.
NewTransport ==
  \/ Len(sockets') > Len(sockets)
  \/ \E w \in 1..Len(sockets) :
       sockets[w].readyState = "CLOSED" /\ sockets'[w].readyState # "CLOSED"

C16_Step ==
  /\ NewTransport => life'.op = "connect"
  /\ \A w \in 1..Len(sockets) :
       Len(sockets'[w].sent) > Len(sockets[w].sent) =>
         /\ life'.op = "send"
         /\ w = ws
         /\ Len(calls') = Len(calls) + 1
  /\ (Len(calls') = Len(calls) + 1 /\ calls'[Len(calls')].id # {}) =>
       sockets'[ws].sent =
         Append(sockets[ws].sent, [id |-> The(calls'[Len(calls')].id),
                                   method |-> calls'[Len(calls')].method])

C16_State ==
  \A w \in 1..Len(sockets) : \A i, j \in 1..Len(sockets[w].sent) :
    i < j => sockets[w].sent[i].id # sockets[w].sent[j].id

C16_NoRetry == []C16_State /\ [][C16_Step]_vars

\* the transport went down with a request in flight; the Connection still
\* holds the dead transport, and a send() made since was refused
C16_Witness ==
  /\ ws # 0
  /\ sockets[ws].readyState = "CLOSED"
  /\ lost # {}
  /\ life.op = "send"
  /\ calls[Len(calls)].error = {NotConnected}

\* ====================== Connection instances, Browser ======================
\* what C15 calls the private state of an instance
Private(cn) == <<cn.messageId, cn.pendingMessages, cn.listeners>>

ChangedConns ==
  {d \in 1..Len(conns) : Private(conns'[d]) # Private(conns[d])}

\* C15: a step changes the id counter, pending table or listener registry of
\* at most one instance, and when the step is a send() or the handling of a
\* response, of the instance that call was made on.
C15_Step ==
  /\ Cardinality(ChangedConns) <= 1
  /\ \A o \in 1..Len(ops') :
       (o > Len(ops) \/ ops'[o] # ops[o]) => ChangedConns \subseteq {ops'[o].conn}

C15_Isolated == [][C15_Step]_vars

\* both instances had a request with id 1 pending; the response on the first
\* settled its call and the request of the second is still pending
C15_Witness ==
  /\ Len(conns) >= 2
  /\ conns[1].messageId = 1 /\ conns[2].messageId = 1
  /\ conns[1].pendingMessages = {}
  /\ \E e \in conns[2].pendingMessages : e.id = 1
  /\ \E o \in 1..Len(ops) : ops[o].conn = 1 /\ ops[o].pc = "done"

\* ============================ Browser.close() ============================
\* how many of the first n entries of a call's log are x
CountBefore(st, n, x) == Cardinality({i \in 1..(n - 1) : st[i] = x})

CloseOps == {o \in 1..Len(ops) : ops[o].kind = "close"}

\* C17: in the log of every close() call, the root Connection is closed only
\* after the targets were listed, a close command was issued for each page
\* target of that listing and each of them was acknowledged; the process is
\* killed only right after the root Connection was closed (or first thing,
\* when the Browser held no Connection); and a process is down only when a
\* close() call has killed it.
C17_TeardownOrder ==
  /\ \A o \in CloseOps :
       LET st == ops[o].steps
       IN \A i \in 1..Len(st) :
            /\ st[i] = "connection.close" =>
                 /\ st[1] = "targets"
                 /\ CountBefore(st, i, "closeTarget") = Cardinality(ops[o].listed)
                 /\ CountBefore(st, i, "ack") = CountBefore(st, i, "closeTarget")
                 /\ CountBefore(st, i, "nack") = 0
            /\ st[i] = "closeTarget" =>
                 CountBefore(st, i, "ack") + CountBefore(st, i, "nack") = 0
            /\ st[i] = "kill" => (i = 1 \/ st[i - 1] = "connection.close")
  /\ \A p \in 1..Len(procs) :
       ~procs[p].alive =>
         \E o \in CloseOps : \E i \in 1..Len(ops[o].steps) : ops[o].steps[i] = "kill"

\* a close() that found two page targets, closed both, then the root
\* Connection, then the process
C17_Witness ==
  \E o \in CloseOps :
    /\ ops[o].pc = "done"
    /\ ops[o].steps = <<"targets", "closeTarget", "closeTarget", "ack", "ack",
                        "connection.close", "kill">>
    /\ \A p \in 1..Len(procs) : ~procs[p].alive
    /\ \A c \in 1..Len(conns) : conns[c].ws = 0

\* C18: a close() call in which the close of a target failed is not rejected
\* for it: it goes on to close the root Connection and to kill the process.
\* Violated: the failed close rejects the Promise.all, close() has no catch
\* around it, and the call ends with the Connection open and the process up.
C18_FailedCloseGoesOn ==
  \A o \in CloseOps :
    (\E i \in 1..Len(ops[o].steps) : ops[o].steps[i] = "nack") =>
      /\ ops[o].pc # "failed"
      /\ ops[o].pc = "done" =>
           /\ connection = 0
           /\ chrome = 0

\* ============================ Browser.launch() ============================
\* C19: a targets() call made after launch() has succeeded, with no newPage()
\* and no close() called, returns an empty set.
\* Violated: launch() resolves when Target.closeTarget was acknowledged, and the
\* target leaves the listing only later; targets that are not pages are never
\* closed at all.
C19_NoTargetsAfterLaunch ==
  \A o \in 1..Len(ops) :
    (ops[o].kind = "targets" /\ ops[o].fresh /\ ops[o].pc = "done") =>
      ops[o].result = {}

\* ============================ Browser.newPage() ============================
\* the Pages that newPage() calls have returned, by call
PageOps == {o \in 1..Len(ops) : ops[o].kind = "newPage" /\ ops[o].pc = "done"}

PageOf(o) == The(ops[o].result)

\* the Connection instances of the Pages with target id t
ConnsOfTarget(t) == {PageOf(o).connection : o \in {x \in PageOps : PageOf(x).targetId = t}}

C20_State ==
  /\ \A o1, o2 \in PageOps :
       o1 # o2 => /\ PageOf(o1).targetId # PageOf(o2).targetId
                  /\ PageOf(o1).connection # PageOf(o2).connection
  /\ \A o \in PageOps :
       /\ PageOf(o).connection # connection
       /\ conns[PageOf(o).connection].url = UrlOf(ops[o].proc, PageOf(o).targetId)

C20_Step ==
  \A o \in 1..Len(ops') :
    (ops'[o].kind = "pageClose" /\ (o > Len(ops) \/ ops'[o] # ops[o])) =>
      \A d \in 1..Len(conns) :
        d \notin ConnsOfTarget(ops'[o].tid) =>
          /\ conns'[d] = conns[d]
          /\ PeerUp(d) => PeerUp(d)'

\* C20: the Pages that newPage() calls returned, concurrent or not, have
\* pairwise distinct target ids and pairwise distinct Connection instances,
\* none of them the root Connection, each opened to the address of its own
\* target; and a step of a Page.close() call changes no Connection instance
\* but that of its own Page, and takes no other instance's transport down.
C20_PagesIndependent == []C20_State /\ [][C20_Step]_vars

\* two newPage() calls that overlapped (the later call's target was created
\* first), one Page closed, the other still open with a request pending
C20_Witness ==
  \E o1, o2 \in PageOps : \E k \in 1..Len(ops) :
    /\ o1 < o2
    /\ PageOf(o1).targetId > PageOf(o2).targetId
    /\ ops[k].kind = "pageClose" /\ ops[k].pc = "done"
    /\ ops[k].tid = PageOf(o1).targetId
    /\ conns[PageOf(o2).connection].readyState = "OPEN"
    /\ conns[PageOf(o2).connection].pendingMessages # {}
    /\ PeerUp(PageOf(o2).connection)

\* how many times x is in a call's log
CountIn(st, x) == CountBefore(st, Len(st) + 1, x)

NewPageOps == {o \in 1..Len(ops) : ops[o].kind = "newPage"}

\* C21: a newPage() call looks its target up in the listing at most once;
\* when the listing it got lacks the id, the call has failed with a
\* TargetClosedError carrying that id, has returned no Page, and no
\* Connection to that target's address exists; and the call fails with
\* TargetClosedError in no other case.
C21_AbsentTargetFails ==
  \A o \in NewPageOps :
    LET looked == CountIn(ops[o].steps, "lookup")
        absent == looked > 0 /\ ops[o].tid \notin ops[o].listed
    IN /\ looked <= 1
       /\ absent =>
            /\ ops[o].pc = "failed"
            /\ ops[o].err = {TargetClosedError(ops[o].tid)}
            /\ ops[o].tid # 0
            /\ ops[o].result = {}
            /\ \A c \in 1..Len(conns) :
                 conns[c].url # UrlOf(ops[o].proc, ops[o].tid)
       /\ (ops[o].err # {} /\ The(ops[o].err).name = "TargetClosedError") => absent

\* the target was created and is open in the process, the listing lacked it,
\* and the call has failed
C21_Witness ==
  \E o \in NewPageOps :
    /\ ops[o].pc = "failed"
    /\ ops[o].err = {TargetClosedError(ops[o].tid)}
    /\ OpenTarget(procs[ops[o].proc], ops[o].tid)
    /\ ops[o].tid \notin ops[o].listed

\* ========================= the Browser's life =========================
\* Ready: a launch() has succeeded and no close() called after it has resolved
Ready ==
  \E l \in 1..Len(ops) :
    /\ ops[l].kind = "launch" /\ ops[l].pc = "done"
    /\ \A k \in (l + 1)..Len(ops) : ~(ops[k].kind = "close" /\ ops[k].pc = "done")

\* the errors that say the Browser or its Connection is not connected
NotConnectedErrors ==
  {Err("BrowserNotConnectedError", "get targets"),
   Err("BrowserNotConnectedError", "create new page"),
   NotConnectedError}

\* the call made in this step, if one is made
NewCall == IF Len(ops') = Len(ops) + 1 THEN {Len(ops')} ELSE {}

C22_Step ==
  \A n \in NewCall :
    (ops'[n].kind \in {"targets", "newPage"} /\ ~Ready) =>
      /\ ops'[n].pc = "failed"
      /\ ops'[n].err \subseteq NotConnectedErrors
      /\ conns' = conns

\* C22: a targets() or newPage() call made while the Browser is not Ready
\* fails at once with a not-connected error and sends nothing.
\* Violated: a launch() that failed after the root Connection was opened
\* leaves this.connection set and open, and the call goes through.
C22_NotReadyFails == [][C22_Step]_vars

LaunchOps == {o \in 1..Len(ops) : ops[o].kind = "launch"}

\* C23: when the launch() call has failed and nothing has succeeded since,
\* the Browser holds no root Connection.
\* Violated: launch() assigns this.connection before connect() and before
\* closeInitialPage(), and its catch block only wraps the error.
C23_FailedLaunchUnlaunched ==
  (\E o \in LaunchOps : ops[o].pc = "failed") => connection = 0

\* C24: when the launch() call has failed with the process spawned, no close()
\* call fails, and a close() call that has resolved has let go of the process.
\* Violated: after a failed connect() this.connection is set but not open,
\* close() goes into targets(), send() throws, and kill() is never reached.
C24_CloseAfterFailedLaunch ==
  (\E o \in LaunchOps : ops[o].pc = "failed" /\ ops[o].proc # 0) =>
    \A c \in CloseOps :
      /\ ops[c].pc # "failed"
      /\ ops[c].pc = "done" => chrome = 0

\* the Browser was never launched, or a close() has resolved and no launch()
\* was called since
NeverLaunched == LaunchOps = {}

AlreadyClosed ==
  \E c \in CloseOps :
    /\ ops[c].pc = "done"
    /\ \A l \in LaunchOps : l < c

C25_Step ==
  /\ \A n \in NewCall :
       (ops'[n].kind = "close" /\ (NeverLaunched \/ AlreadyClosed)) =>
         /\ ops'[n].pc = "done"
         /\ ops'[n].err = {} /\ ops'[n].errors = 0
         /\ conns' = conns
         /\ procs' = procs
  /\ \A c \in 1..Len(ops') :
       (ops'[c].kind = "close" /\ ops'[c].pc = "done"
        /\ (c > Len(ops) \/ ops[c].pc # "done")) =>
         connection' = 0 /\ chrome' = 0

\* C25: a close() call on a Browser never launched or already closed resolves
\* in the call itself, with no error, changing no Connection and no process;
\* and when a close() call resolves the Browser holds neither a root
\* Connection nor a process.
C25_CloseIdempotent == [][C25_Step]_vars

\* launched, closed with the process killed, and closed once more, which did
\* nothing
C25_Witness ==
  \E l \in LaunchOps : \E c1, c2 \in CloseOps :
    /\ ops[l].pc = "done"
    /\ l < c1 /\ c1 < c2
    /\ ops[c1].pc = "done" /\ CountIn(ops[c1].steps, "kill") = 1
    /\ ops[c2].pc = "done" /\ ops[c2].steps = <<>>
    /\ connection = 0 /\ chrome = 0

\* the close() calls whose kill() is made in this step and leaves the process up
KillFails ==
  {c \in 1..Len(ops') :
     /\ ops'[c].kind = "close"
     /\ CountIn(ops'[c].steps, "kill") = 1
     /\ (c > Len(ops) \/ CountIn(ops[c].steps, "kill") = 0)
     /\ chrome # 0
     /\ procs'[chrome].alive}

C27_Step ==
  \A c \in KillFails :
    /\ ops'[c].pc = "done"
    /\ ops'[c].err = {}
    /\ ops'[c].errors = 1
    /\ chrome' = 0
    /\ connection' = 0

\* C27: when the kill() of a close() call fails, the failure is put into the
\* call's list of errors, the call resolves, and the Browser holds neither a
\* process nor a root Connection afterwards.
C27_KillFailureCollected == [][C27_Step]_vars

\* a launched Browser was closed, the kill() failed: the call has resolved
\* with one collected error, and the process is still up
C27_Witness ==
  \E l \in LaunchOps : \E c \in CloseOps :
    /\ ops[l].pc = "done" /\ l < c
    /\ ops[c].pc = "done" /\ ops[c].errors = 1
    /\ CountIn(ops[c].steps, "connection.close") = 1
    /\ procs[ops[l].proc].alive
    /\ chrome = 0 /\ connection = 0

\* ==================== close() and calls in flight ====================
TargetOps == {o \in 1..Len(ops) : ops[o].kind \in {"targets", "newPage"}}

\* the call waits for a response on a Connection that close() has closed and
\* whose transport is down: no message can come any more
Stuck(o) ==
  /\ ops[o].pc \notin {"done", "failed"}
  /\ ops[o].wait # {}
  /\ conns[ops[o].conn].ws = 0
  /\ conns[ops[o].conn].readyState = "CLOSED"

\* C26: no close() call fails, and once a close() call has resolved no
\* targets() or newPage() call is left waiting for a response that cannot
\* come, and none has died of a null dereference.
\* Violated: close() closes the root Connection with the request of the other
\* call pending, and nothing settles a pending request of a closed Connection.
C26_CloseWithCallsInFlight ==
  \A c \in CloseOps :
    /\ ops[c].pc # "failed"
    /\ ops[c].pc = "done" =>
         \A o \in TargetOps :
           /\ ~Stuck(o)
           /\ \A e \in ops[o].err : e.name # "TypeError"

\* ========================= Pages and Connections =========================
\* the Connection instances the Browser had as its root Connection
RootConns == {ops[l].conn : l \in {x \in LaunchOps : ops[x].conn # 0}} \cup ({connection} \ {0})

C28_State ==
  /\ \A o1, o2 \in PageOps :
       PageOf(o1).connection = PageOf(o2).connection => o1 = o2
  /\ \A o \in PageOps : PageOf(o).connection \notin RootConns

C28_Step ==
  \A o \in NewPageOps :
    /\ (ops[o].pc = "fetch" /\ ops'[o].pc = "connect") =>
         /\ Len(conns') = Len(conns) + 1
         /\ ops'[o].conn = Len(conns')
    /\ (ops[o].pc = "connect" /\ ops'[o].pc = "done") =>
         PageOf(o)'.connection = ops[o].conn

\* C28: the Pages returned so far are bound to pairwise different Connection
\* instances, none of which is or was the Browser's root Connection; the
\* instance of a Page is the one its newPage() call created, which did not
\* exist before.
C28_NoSharedConnection == []C28_State /\ [][C28_Step]_vars

\* two Pages and the root Connection, all three open
C28_Witness ==
  /\ connection # 0 /\ conns[connection].readyState = "OPEN"
  /\ Cardinality({PageOf(o).connection : o \in PageOps}) = 2
  /\ \A o \in PageOps : conns[PageOf(o).connection].readyState = "OPEN"

\* the calls made on the Connection of a Page
PageCalls ==
  {o \in 1..Len(ops) : ops[o].kind \in {"send", "pageClose"} /\ ops[o].conn \in PageConns}

\* the target of the Page Connection c is closed and the transport to it is down
TargetClosed(c) ==
  /\ ~OpenTarget(procs[conns[c].url.proc], conns[c].url.target)
  /\ conns[c].readyState = "CLOSED"

\* C29: once the target of a Page is closed and its transport is down, no
\* call on that Page is still waiting for a response.
\* Violated: the close handler of the Connection only emits "disconnected";
\* the request that was in flight stays in the pending table for ever.
C29_ClosedTargetFailsCalls ==
  \A o \in PageCalls :
    TargetClosed(ops[o].conn) => ops[o].pc \in {"done", "failed"}

\* ============================== Page.goto() ==============================
GotoOps == {o \in 1..Len(ops) : ops[o].kind = "goto"}

\* C30: a goto() call with waitUntil is not left waiting once the named event
\* was delivered after its Page.navigate was written; a goto() call that has
\* resolved has seen its named event; and one that has not seen it is not
\* resolved.
\* Violated: the listener is registered only when the response to
\* Page.navigate is handled, so an event delivered before that response is
\* lost and the call waits for a second one.
C30_GotoWaits ==
  \A o \in GotoOps :
    ops[o].waitUntil # "" =>
      /\ LifecycleEvent(ops[o].waitUntil) \in ops[o].seen => ops[o].pc # "wait"
      /\ ops[o].pc = "done" => LifecycleEvent(ops[o].waitUntil) \in ops[o].seen

\* ============================== Page.click() ==============================
ClickOps == {o \in 1..Len(ops) : ops[o].kind = "click"}

\* the commands with this method that call o has written
CmdsOf(o, method) ==
  {i \in 1..Len(ops[o].cmds) : ops[o].cmds[i].method = method}

LastCmd(o) ==
  IF ops[o].cmds = <<>> THEN "" ELSE ops[o].cmds[Len(ops[o].cmds)].method

\* the call ended for another reason than a protocol error
EndedWell(o) ==
  /\ ops[o].pc \in {"done", "failed"}
  /\ \A e \in ops[o].err : e.name # "ProtocolError"

\* C31: a click() call never asks for the box model of node 0; a call that
\* ended right after DOM.getDocument or DOM.querySelector, not by a protocol
\* error, has failed with ElementNotFoundError carrying its selector; such a
\* call has written no mouse event; and a call that has not ended is waiting
\* for a response.
C31_NoNodeNoClick ==
  \A o \in ClickOps :
    /\ \A i \in CmdsOf(o, "DOM.getBoxModel") : ops[o].cmds[i].params.code # 0
    /\ (EndedWell(o) /\ LastCmd(o) \in {"DOM.getDocument", "DOM.querySelector"}) =>
         /\ ops[o].pc = "failed"
         /\ ops[o].err = {ElementNotFoundError(ops[o].input[1])}
    /\ (\E e \in ops[o].err : e.name = "ElementNotFoundError") =>
         CmdsOf(o, "Input.dispatchMouseEvent") = {}
    /\ ops[o].pc \notin {"done", "failed"} => ops[o].wait # {}

\* the selector matched nothing: the call has failed after DOM.querySelector
C31_Witness ==
  \E o \in ClickOps :
    /\ ops[o].pc = "failed"
    /\ ops[o].err = {ElementNotFoundError(".button")}
    /\ Len(ops[o].cmds) = 3
    /\ LastCmd(o) = "DOM.querySelector"

\* the requests of call o that are written and not answered
Unanswered(o) ==
  IF ops[o].conn = 0 THEN {}
  ELSE {e \in conns[ops[o].conn].pendingMessages : e.call = o}

MouseCmds(o, type) ==
  {i \in CmdsOf(o, "Input.dispatchMouseEvent") : ops[o].cmds[i].params.type = type}

\* C32: a click() call has at most one request in flight; it writes at most
\* one mousePressed and at most one mouseReleased, the release right after
\* the press; every mouse event is at the centre of the quadrilateral that
\* DOM.getBoxModel answered (in quarters of a unit); and a call that got its
\* box model and ended without a protocol error is done having written
\* exactly one press and one release.
C32_OnePressOneRelease ==
  \A o \in ClickOps :
    LET cmds == ops[o].cmds
        n == Len(cmds)
    IN /\ Cardinality(Unanswered(o)) <= 1
       /\ Cardinality(MouseCmds(o, "mousePressed")) <= 1
       /\ Cardinality(MouseCmds(o, "mouseReleased")) <= 1
       /\ CmdsOf(o, "Input.dispatchMouseEvent") =
            MouseCmds(o, "mousePressed") \cup MouseCmds(o, "mouseReleased")
       /\ \A i \in MouseCmds(o, "mouseReleased") :
            i = n /\ i - 1 \in MouseCmds(o, "mousePressed")
       /\ \A i \in MouseCmds(o, "mousePressed") :
            i >= n - 1 /\ cmds[i - 1].method = "DOM.getBoxModel"
       /\ \A i \in CmdsOf(o, "Input.dispatchMouseEvent") :
            /\ ops[o].model \in Quads
            /\ cmds[i].params.x = ops[o].model[1] + ops[o].model[3]
                                   + ops[o].model[5] + ops[o].model[7]
            /\ cmds[i].params.y = ops[o].model[2] + ops[o].model[4]
                                   + ops[o].model[6] + ops[o].model[8]
       /\ (EndedWell(o) /\ ops[o].model # <<>>) =>
            /\ ops[o].pc = "done"
            /\ Cardinality(MouseCmds(o, "mousePressed")) = 1
            /\ Cardinality(MouseCmds(o, "mouseReleased")) = 1
       /\ ops[o].pc = "done" => ops[o].model # <<>>

\* a click on the quadrilateral that is no rectangle has been completed
C32_Witness ==
  \E o \in ClickOps :
    /\ ops[o].pc = "done"
    /\ ops[o].model = <<0, 0, 3, 1, 4, 5, 1, 4>>
    /\ Len(ops[o].cmds) = 6
    /\ ops[o].cmds[5].params = Params("mousePressed", 8, 10, "", 0, "")
    /\ ops[o].cmds[6].params = Params("mouseReleased", 8, 10, "", 0, "")

\* ========================= Page.type(), Page.press() =========================
TypeOps == {o \in 1..Len(ops) : ops[o].kind = "type"}

\* C33: a type() call has at most one request in flight; command 2i-1 it
\* writes is the keyDown of character i of the text, with that character as
\* its text, and command 2i the keyUp with the same key code; it writes no
\* more; when it is done it has written two commands for each character;
\* and it fails only by a failure of a send().
C33_TypeKeyPairs ==
  \A o \in TypeOps :
    LET text == ops[o].input
        cmds == ops[o].cmds
    IN /\ Cardinality(Unanswered(o)) <= 1
       /\ Len(cmds) <= 2 * Len(text)
       /\ \A i \in 1..Len(cmds) :
            /\ cmds[i].method = "Input.dispatchKeyEvent"
            /\ i % 2 = 1 =>
                 /\ cmds[i].params.type = "keyDown"
                 /\ cmds[i].params.text = text[(i + 1) \div 2]
            /\ i % 2 = 0 =>
                 /\ cmds[i].params.type = "keyUp"
                 /\ cmds[i].params.code = cmds[i - 1].params.code
       /\ ops[o].pc = "done" => Len(cmds) = 2 * Len(text)
       /\ ops[o].pc = "failed" =>
            \E e \in ops[o].err : e.name \in {"ProtocolError", "Error"}
       /\ ops[o].pc \notin {"done", "failed", "delay"} => ops[o].wait # {}

\* a text of two characters has been typed, with a delay after each, while
\* another call was made
C33_Witness ==
  \E o \in TypeOps :
    /\ ops[o].pc = "done"
    /\ ops[o].input = <<"H", "U+1F600">>
    /\ ops[o].delay = 50
    /\ Len(ops[o].cmds) = 4
    /\ Len(ops) = 2

PressOps == {o \in 1..Len(ops) : ops[o].kind = "press"}

\* C34: a press() call with a key the keycode library does not know has
\* failed with InvalidKeyError carrying the key and has written nothing; a
\* call with a key it knows writes one keyDown and then, after the response,
\* one keyUp, both for that key and its code, and no more; it is done only
\* after both, and fails only by a failure of a send().
C34_PressKey ==
  \A o \in PressOps :
    LET key == ops[o].input[1]
        code == Keycode(ToLowerCase(key))
        cmds == ops[o].cmds
    IN IF code = {}
       THEN /\ ops[o].pc = "failed"
            /\ ops[o].err = {InvalidKeyError(key)}
            /\ cmds = <<>>
            /\ Unanswered(o) = {}
       ELSE /\ Cardinality(Unanswered(o)) <= 1
            /\ Len(cmds) <= 2
            /\ \A i \in 1..Len(cmds) :
                 /\ cmds[i].method = "Input.dispatchKeyEvent"
                 /\ cmds[i].params.type = (IF i = 1 THEN "keyDown" ELSE "keyUp")
                 /\ cmds[i].params.key = key
                 /\ cmds[i].params.code = The(code)
            /\ ops[o].pc = "done" => Len(cmds) = 2
            /\ ops[o].pc = "failed" =>
                 \E e \in ops[o].err : e.name \in {"ProtocolError", "Error"}
            /\ ops[o].pc \notin {"done", "failed"} => ops[o].wait # {}

\* press("InvalidKey") has failed and press("Enter") is done
C34_Witness ==
  \E o, p \in PressOps :
    /\ ops[o].input = <<"InvalidKey">>
    /\ ops[o].pc = "failed"
    /\ ops[p].input = <<"Enter">>
    /\ ops[p].pc = "done"
    /\ Len(ops[p].cmds) = 2

\* ============================== Page.close() ==============================
PageCloseOps == {o \in 1..Len(ops) : ops[o].kind = "pageClose"}

\* C35: a Page.close() call writes at most one command, Target.closeTarget
\* with the target id of its Page on the Connection of its Page, and has at
\* most one request in flight; it is done only after a response that says
\* success; after a response that says failure or is an error it has failed;
\* and until the response it stays suspended.
C35_PageCloseAcked ==
  \A o \in PageCloseOps :
    LET cmds == ops[o].cmds
        steps == ops[o].steps
    IN /\ Len(cmds) <= 1
       /\ Cardinality(Unanswered(o)) <= 1
       /\ \A i \in 1..Len(cmds) :
            /\ cmds[i].method = "Target.closeTarget"
            /\ \E pg \in PageOps :
                 /\ PageOf(pg).targetId = cmds[i].params.code
                 /\ PageOf(pg).connection = ops[o].conn
                 /\ \A e \in Unanswered(o) :
                      \A r \in conns[ops[o].conn].out :
                        r.id = e.id =>
                          /\ r.method = "Target.closeTarget"
                          /\ r.arg = PageOf(pg).targetId
       /\ ops[o].pc = "done" => cmds # <<>> /\ steps = <<"success">>
       /\ (steps # <<>> /\ steps[1] \in {"failure", "error"}) =>
            /\ ops[o].pc = "failed"
            /\ ops[o].err = {Err("Error", "Failed to close target")}
       /\ ops[o].pc \notin {"done", "failed"} =>
            steps = <<>> /\ Cardinality(Unanswered(o)) = 1

\* one Page.close() is done and another one of the same Page was told of a
\* failure
C35_Witness ==
  \E o, p \in PageCloseOps :
    /\ ops[o].pc = "done"
    /\ ops[p].steps = <<"failure">>
    /\ ops[p].tid = ops[o].tid

\* ============================ flags of launch() ============================
Has(flags, flag) == \E i \in 1..Len(flags) : flags[i] = flag

\* the flag that the window size w is to give
SizeFlagOf(w) ==
  IF w.width = 1920 THEN "--window-size=1920,1080" ELSE "--window-size=0,0"

\* C36: the flag list handed to the launcher by a launch() call has
\* --headless and --disable-gpu exactly when headless is set, has the
\* --window-size flag of the given size, once, exactly when windowSize is
\* set and no --window-size flag otherwise, and is empty when neither is set.
C36_FlagList ==
  \A o \in LaunchOps :
    LET flags == ops[o].input
        options == ops[o].options
    IN /\ Has(flags, "--headless") <=> options.headless
       /\ Has(flags, "--disable-gpu") <=> options.headless
       /\ \A w \in WindowSizes :
            Cardinality({i \in 1..Len(flags) : flags[i] = SizeFlagOf(w)}) =
              (IF options.windowSize = {w} THEN 1 ELSE 0)
       /\ (~options.headless /\ options.windowSize = {}) => flags = <<>>

\* ===================== messages that carry an id =====================
\* C37: a settled send() is never settled again; a message that carries an
\* id starts no dispatch and leaves the listeners alone, whether or not it
\* carries a method; one whose id is not in the pending table changes
\* nothing at all; and one whose id is in the table settles the call of that
\* entry and no other.
C37_Step ==
  /\ Len(calls') >= Len(calls)
  /\ \A k \in 1..Len(calls) : calls[k].state # "pending" => calls'[k] = calls[k]
  /\ (heard' # {} /\ The(heard').id # {}) =>
       LET msg == The(heard')
           pending == {e \in pendingMessages : e.id = The(msg.id)}
       IN /\ UNCHANGED <<stack, emitNo, listeners, fired, regs, messageId, ws, sockets>>
          /\ pending = {} => UNCHANGED <<pendingMessages, calls>>
          /\ \A e \in pending :
               /\ calls'[e.call].state # "pending"
               /\ calls'[e.call].settledBy = {msg}
               /\ \A k \in 1..Len(calls) : k # e.call => calls'[k] = calls[k]
               /\ pendingMessages' = pendingMessages \ {e}

C37_SettledOnce == [][C37_Step]_vars

\* a message with the id of a request that was answered before, and with the
\* method of an event that has a listener, has been handled
C37_Witness ==
  /\ heard # {}
  /\ The(heard).id # {}
  /\ The(heard).method # {}
  /\ listeners[The(The(heard).method)] # <<>>
  /\ stack = <<>>
  /\ \E k \in 1..Len(calls) :
       /\ calls[k].id = The(heard).id
       /\ calls[k].state = "resolved"
       /\ calls[k].settledBy # heard

\* ======================== messages after close() ========================
\* C38: a send() that was pending when close() was called is not resolved
\* with a result afterwards.
C38_Step ==
  \A k \in atClose :
    calls[k].state = "pending" => calls'[k].state # "resolved"

C38_NothingAfterClose == [][C38_Step]_vars

\* ====================== the transports of a Connection ======================
\* the transports that are connecting or open
Live == {w \in 1..Len(sockets) : sockets[w].readyState \in {"CONNECTING", "OPEN"}}

\* C39: at most one transport of the Connection is connecting or open at a
\* time, and it is the one this.ws holds, so that after close(), which sets
\* this.ws to null, none is.
C39_OneLiveTransport ==
  /\ Cardinality(Live) <= 1
  /\ \A w \in Live : ws = w

\* ======================= close() after launch() twice =======================
\* C40: once a close() call that was made after every launch() call is done,
\* no process that was spawned is alive and no root Connection is connecting
\* or open.
C40_AllDownAfterClose ==
  \A o \in CloseOps :
    (/\ ops[o].pc = "done"
     /\ \A l \in LaunchOps : l < o) =>
      /\ \A p \in 1..Len(procs) : ~procs[p].alive
      /\ \A c \in 1..Len(conns) :
           conns[c].url.target = 0 => conns[c].readyState \notin {"CONNECTING", "OPEN"}
====
